---- MODULE Spec2Model ----
(***************************************************************************)
(* Streamlet (kitsnail/streamlet): the media asset generation pipeline.    *)
(*                                                                         *)
(* The model follows main.go's scheduling layer (the per-kind run flags,   *)
(* the progress structs, genMutex, the start and status handlers and the   *)
(* background launch at startup) and the two batch generators              *)
(* (ThumbnailGenerator / PreviewGenerator: GenerateAll's worker pool and   *)
(* the per-video job with its three-tier cache check).                     *)
(*                                                                         *)
(* Every handler of main.go runs with genMutex held from its first to its  *)
(* last statement, and so does the progress callback; each is one action.  *)
(* A batch job is cut at every point where it reads or writes state that   *)
(* other goroutines share (the stats table, the cache directory, the       *)
(* library) or waits for an external tool.                                 *)
(***************************************************************************)
EXTENDS Integers, Sequences, FiniteSets, TLC

\* ------------------------------------------------------------------ bounds
\* Workers per generator (main.go passes 4; the pool logic is the same for
\* any W >= 1, and 2 already gives concurrent jobs).
NumWorkers == 2
\* Start requests (accepted or rejected) the clients send, both kinds together.
MaxStarts == 2
\* Changes of the video library made from outside while the process runs.
MaxLibChanges == 1
\* Path elements after the prefix of an identifier a client sends.
MaxSegs == 3
\* View and like requests the clients send, all together.
MaxCalls == 3
\* Days the clock runs.
MaxDays == 8
\* The largest byte position in a Range header (the files have two blocks).
MaxPos == 3

\* ------------------------------------------------------------- vocabulary
Kinds == {"thumbnail", "preview"}
Other(k) == IF k = "thumbnail" THEN "preview" ELSE "thumbnail"

\* A run is one invocation of GenerateAll: started by the API handler of its
\* kind, or launched in the background at startup.
Runs == Kinds \X {"api", "boot"}
KindOf(r) == r[1]
IsApi(r) == r[2] = "api"
ApiRun(k) == <<k, "api">>
BootRun(k) == <<k, "boot">>

\* NewThumbnailGenerator / NewPreviewGenerator: if workers < 1 { workers = 4 }
DefaultWorkers == 4
NewGenerator(workers) == IF workers < 1 THEN DefaultWorkers ELSE workers

\* The goroutines a pool can have: as many as the largest pool of the model.
MaxWorkers == IF NumWorkers < DefaultWorkers THEN DefaultWorkers ELSE NumWorkers
Workers == 1..MaxWorkers

\* (variant: the loop that starts the workers runs once more)
PoolSizeOneMore(workers) == workers + 1

\* for i := 0; i < tg.workers; i++ { go func(workerID int) ... }
PoolSize(workers) == workers

\* A string the path code takes apart is a sequence of pieces: the separators
\* "/" and ":", the names ".." and "._", the extensions, and runs of other
\* characters ("0:a.mp4" is <<"0", ":", "a", ".mp4">>).  No piece is the
\* beginning or the end of another, so a string has a prefix or a suffix
\* exactly when its pieces have.
\* fmt.Sprintf("%d:%s", dirIndex, relPath)
Address(i, rel) == <<i, ":">> \o rel

\* Identifiers as GenerateAll builds them, in the lexical order
\* filepath.WalkDir visits them.
VideoOrder == <<Address("0", <<"a", ".mp4">>), Address("0", <<"b", ".mp4">>)>>
Videos == {VideoOrder[i] : i \in 1..Len(VideoOrder)}

\* File contents: the bytes of the first MiB (head) and the rest (tail).
Absent == [head |-> "", tail |-> ""]
Contents == {[head |-> "h1", tail |-> "t1"], [head |-> "h1", tail |-> "t2"]}
\* The first blocks that occur on the disk (the library's and those of the
\* files outside it).
Hashes == {c.head : c \in Contents} \cup {"s1"}
NoHash == ""

\* (variant: the digest runs over the whole file)
GetFileContentHashWhole(c) == IF c.tail = "t1" THEN c.head ELSE "s1"

\* The MD5 digest of the first MiB, named by the bytes it digests.
GetFileContentHash(c) == c.head

\* No -ss argument chosen yet (or one per segment).
NoSeek == -1

\* The segment directory of a preview generation, <cache>/temp_<hash[:8]>:
\* whether it exists, and whose seg<i>.ts files it holds (the job that wrote
\* them last, -y overwriting what was there).  The fingerprints of the model
\* differ in their first eight characters, so a directory is named by its hash.
NoOwner == <<>>
NoTemp == [dir |-> FALSE, seg |-> NoOwner]
\* os.MkdirAll(tempDir, 0755): no effect on a directory that exists.
MkdirAll(t, h) == [t EXCEPT ![h].dir = TRUE]
\* The segment loop: ffmpeg -y ... <tempDir>/seg<i>.ts for every i.
WriteSegments(t, h, who) == [t EXCEPT ![h].seg = who]
\* defer os.RemoveAll(tempDir): the directory and everything in it.
RemoveAll(t, h) == [t EXCEPT ![h] = NoTemp]
\* generateThumbnail / generatePreview returns after the tools were started:
\* the deferred call of a preview generation runs.
Return(t, k, h) == IF k = "preview" THEN RemoveAll(t, h) ELSE t
\* The locals of a job: the identifier, contentHash, duration (seconds, after
\* the default), whether the fallback invocation is the one running, and the
\* -ss argument (seconds) of the invocation that writes the artifact.
NoJob == [path |-> <<>>, hash |-> NoHash, fallback |-> FALSE, duration |-> 0, ss |-> NoSeek]
NoProgress == [Total |-> 0, Done |-> 0, Failed |-> 0, Running |-> FALSE]
\* A response: the status code and the progress struct in its body; "run" is
\* the number of accepted start requests of the kind when it was written (it
\* tells the reads of one run from those of the next, and is not sent).
NoResp == [op |-> "none", kind |-> "", code |-> 0, progress |-> NoProgress, run |-> 0]
NoTools == [hash |-> 0, probe |-> 0]

\* handed .. fresh and vdone .. hotOf below record what has happened (who
\* received what, which tools ran, which requests were answered); no step of
\* the program reads them.
VARIABLES
    scope,        \* the runs this behaviour follows; the others stay quiescent
    lib,          \* the library: identifier -> content of the file (or Absent)
    libChanges,   \* number of outside changes made to the library
    db,           \* video_stats: identifier -> kind -> recorded hash
    files,        \* cache directory: kind -> hash -> "none" | "partial" | "done"
    running,      \* thumbnailRunning / previewRunning
    progress,     \* thumbnailProgress / previewProgress
    nStart,       \* start requests handled per kind
    resp,         \* the last HTTP response of a start or status handler
    gpc,          \* per run: where its goroutine is
    videos,       \* per run: the list captured by the walk
    jobs,         \* per run: content of the jobs channel
    jobsClosed,   \* per run: close(jobs) done
    spc,          \* per run: the sender goroutine ("off", "send", "end")
    results,      \* per run: content of the results channel
    resultsClosed,\* per run: close(results) done
    wpc,          \* per run and worker: position of the worker
    wjob,         \* per run and worker: the job in hand
    success,      \* per run: GenerateAll's local counter
    failed,       \* per run: GenerateAll's local counter
    handed,       \* per run: identifier -> times received by a worker
    collected,    \* per run: identifier -> results read by the collector
    tools,        \* per run: fingerprint computations and probe invocations
    gens,         \* per run: hash -> generation invocations writing <hash>
    runNo,        \* per kind: number of accepted start requests
    clean,        \* per kind: a run finished with every job succeeded, library unchanged since its walk
    second,       \* per run: the run walked the library while clean held
    fresh,        \* per run: the library is unchanged since the run's walk
    hreq,         \* the stream / thumbnail / preview request being served
    hresp,        \* its response
    stats,        \* video_stats: identifier -> views, likes, liked, last_viewed, hotness
    now,          \* the wall clock, in days
    callers,      \* the clients that post view and like events in this behaviour
    cpc,          \* per client: the statement its handler executes next
    cloc,         \* per client: the locals of its handler
    nCalls,       \* view and like requests received
    seen,         \* the row the last reader got (GetStats / GetAllStats)
    vdone,        \* per identifier: view requests answered
    ldone,        \* per identifier: like requests answered
    hotOf,        \* per identifier: the views and likes the stored hotness was computed from
    tree,         \* what the roots hold beside the library: entry -> size (or Missing)
    listed,       \* the last response of the video lister
    configured,   \* the number of workers main.go asks the generators for
    temp          \* cache directory: hash -> the segment directory temp_<hash[:8]>

genVars == <<scope, lib, libChanges, db, files, running, progress, nStart, resp, gpc,
             videos, jobs, jobsClosed, spc, results, resultsClosed, wpc, wjob, success,
             failed, handed, collected, tools, gens, runNo, clean, second, fresh, temp>>
webVars == <<hreq, hresp>>
statVars == <<stats, now, callers, cpc, cloc, nCalls, seen, vdone, ldone, hotOf>>
walkVars == <<tree, listed>>
poolVars == <<configured>>
auxVars == <<webVars, statVars, walkVars, poolVars>>

vars == <<genVars, auxVars>>

envVars == <<scope, lib, libChanges>>
storeVars == <<db, files, temp>>
schedVars == <<running, progress, nStart, resp, runNo>>
chanVars == <<videos, jobs, jobsClosed, spc, results, resultsClosed>>
countVars == <<success, failed>>
ghostVars == <<handed, collected, tools, gens, clean, second, fresh>>

\* ------------------------------------------------------------ pure helpers
\* The columns thumbnail_hash and preview_hash of a row that no statement has
\* set: NULL, read as "" through sql.NullString.
NoHashes == [k \in Kinds |-> NoHash]

\* (variant: the getter of one kind selects the other kind's column)
GetHashOther(d, v, k) == IF v \in DOMAIN d THEN d[v][Other(k)] ELSE NoHash

\* GetThumbnailHash / GetPreviewHash: the recorded hash, "" when the
\* identifier has no row.
GetHash(d, v, k) == IF v \in DOMAIN d THEN d[v][k] ELSE NoHash

\* (variant: the result of os.Stat is read as "missing" whatever it is)
StatNever(k, h) == FALSE

\* os.Stat(<cacheDir>/<hash><ext>) returns no error: the file exists, whether
\* or not its writer has finished.
StatOk(k, h) == files[k][h] # "none"

\* Tier (a): a recorded hash whose artifact file exists.
TierAHit(k, v) == GetHash(db, v, k) # NoHash /\ StatOk(k, GetHash(db, v, k))

\* (variant: the content-hit check is left out, every tier-(a) miss generates)
TierBNever(k, h) == FALSE

\* Tier (b): an artifact file under the freshly computed fingerprint.
TierBHit(k, h) == StatOk(k, h)

\* (variant: INSERT OR REPLACE, the row is written anew)
SetHashReplace(d, v, k, h) ==
    [x \in DOMAIN d \cup {v} |-> IF x = v THEN [NoHashes EXCEPT ![k] = h] ELSE d[x]]

\* SetThumbnailHash / SetPreviewHash: the upsert touches the hash column of
\* its own kind only.
SetHash(d, v, k, h) ==
    IF v \in DOMAIN d
    THEN [d EXCEPT ![v][k] = h]
    ELSE [x \in DOMAIN d \cup {v} |-> IF x = v THEN [NoHashes EXCEPT ![k] = h] ELSE d[x]]

\* What ffprobe prints for a file, parsed by strconv.ParseFloat with the error
\* dropped, in seconds: the first file of the library is a clip of 20 s, the
\* second has no duration in its header ("N/A" parses to 0), and a third
\* content is a video of 40 s.
ParseFloat(c) == IF c.tail = "t1" THEN 20 ELSE IF c.tail = "t3" THEN 40 ELSE 0

\* if duration < 1 { duration = 600 } (thumbnails); if duration < 30 {
\* duration = 600 } (previews)
Duration(k, probed) ==
    IF k = "thumbnail" THEN (IF probed < 1 THEN 600 ELSE probed)
    ELSE (IF probed < 30 THEN 600 ELSE probed)

\* generateThumbnail: middlePoint := duration / 2
middlePoint(duration) == duration \div 2

\* generatePreview's fallback: midPoint := duration / 2; if midPoint < 15 {
\* midPoint = 0 }
midPoint(duration) == IF duration \div 2 < 15 THEN 0 ELSE duration \div 2

\* (variant: one flag for both kinds)
RunFlagSetAny(k) == \E j \in Kinds : running[j]

\* The run flag a start handler tests before it accepts.
RunFlagSet(k) == running[k]

\* (variant: the handler copied from the other kind keeps that kind's struct)
ConflictProgressOther(k) == progress[Other(k)]

\* The progress struct a rejected start request carries.
ConflictProgress(k) == progress[k]

\* The progress callback main.go installs: Total, Done and Failed are
\* replaced together under genMutex; Running is left alone.
CallbackWrite(p, total, done, nfailed) ==
    [p EXCEPT !.Total = total, !.Done = done, !.Failed = nfailed]

\* (variant: close(jobs) is forgotten)
SenderNeverCloses == FALSE

\* The sender goroutine closes the jobs channel after the last send.
SenderCloses == TRUE

\* (variant: every worker walks the whole list instead of sharing the channel)
ReceivePeek(q) == q

\* A receive takes the first element out of the channel.
Receive(q) == Tail(q)

\* for videoPath := range jobs: the worker goes back for the next job after
\* every result, failed or not.
WorkerContinues(err) == TRUE

ZeroCount == [v \in Videos |-> 0]

\* ------------------------------------------------------- paths and strings
\* No piece is the beginning of another piece, so one string begins with
\* another exactly when its pieces begin with the other's pieces.
\* strings.HasPrefix
HasPrefix(s, p) == Len(p) <= Len(s) /\ SubSeq(s, 1, Len(p)) = p

\* strings.Contains(s, ":")
HasColon(s) == \E i \in 1..Len(s) : s[i] = ":"

FirstColon(s) == CHOOSE i \in 1..Len(s) : s[i] = ":" /\ \A j \in 1..(i - 1) : s[j] # ":"

LastColon(s) == CHOOSE i \in 1..Len(s) : s[i] = ":" /\ \A j \in (i + 1)..Len(s) : s[j] # ":"

\* (variant: the identifier is cut at its last colon)
SplitNLast(s) == <<SubSeq(s, 1, LastColon(s) - 1), SubSeq(s, LastColon(s) + 1, Len(s))>>

\* strings.SplitN(s, ":", 2) of a string that holds a colon
SplitN(s) == <<SubSeq(s, 1, FirstColon(s) - 1), SubSeq(s, FirstColon(s) + 1, Len(s))>>

Digits == {"0", "1", "2"}
DigitVal(d) == IF d = "0" THEN 0 ELSE IF d = "1" THEN 1 ELSE 2

RECURSIVE Decimal(_)
Decimal(s) == IF s = <<>> THEN 0 ELSE 10 * Decimal(SubSeq(s, 1, Len(s) - 1)) + DigitVal(s[Len(s)])

\* strconv.Atoi: the value, or an error for the empty string and for a
\* string that is not a numeral.
Atoi(s) ==
    IF s # <<>> /\ \A i \in 1..Len(s) : s[i] \in Digits
    THEN [ok |-> TRUE, val |-> Decimal(s)]
    ELSE [ok |-> FALSE, val |-> 0]

\* cfg.VideoDirs: the roots /v and /w (cfg.VideoDir is the first).
VideoDirs == << <<"/", "v">>, <<"/", "w">> >>
VideoDir == VideoDirs[1]

\* The elements of a path between its separators; empty elements vanish.
RECURSIVE Elements(_, _)
Elements(s, cur) ==
    IF s = <<>> THEN (IF cur = <<>> THEN <<>> ELSE <<cur>>)
    ELSE IF Head(s) = "/"
         THEN (IF cur = <<>> THEN <<>> ELSE <<cur>>) \o Elements(Tail(s), <<>>)
         ELSE Elements(Tail(s), Append(cur, Head(s)))

\* filepath.Clean on the elements of a rooted path: ".." removes the element
\* before it, and at the root it is dropped.
RECURSIVE CleanElements(_, _)
CleanElements(es, out) ==
    IF es = <<>> THEN out
    ELSE IF Head(es) = <<"..">>
         THEN CleanElements(Tail(es), IF out = <<>> THEN <<>> ELSE SubSeq(out, 1, Len(out) - 1))
         ELSE CleanElements(Tail(es), Append(out, Head(es)))

RECURSIVE Rooted(_)
Rooted(es) == IF es = <<>> THEN <<>> ELSE <<"/">> \o Head(es) \o Rooted(Tail(es))

\* filepath.Clean of a rooted path, as a string again.
Clean(s) ==
    LET es == CleanElements(Elements(s, <<>>), <<>>)
    IN IF es = <<>> THEN <<"/">> ELSE Rooted(es)

\* filepath.Join(dir, rel): the two joined by a separator, then cleaned.
Join(dir, rel) == Clean(dir \o <<"/">> \o rel)

\* filepath.Abs of a rooted path.
Abs(s) == Clean(s)

\* parseVideoPath: the file an identifier names, or an error.
parseVideoPath(id) ==
    IF HasColon(id)
    THEN LET parts == SplitN(id)
             dirIndex == Atoi(parts[1])
         IN IF ~dirIndex.ok THEN [ok |-> FALSE, path |-> <<>>]
            ELSE IF dirIndex.val < 0 \/ dirIndex.val >= Len(VideoDirs)
                 THEN [ok |-> FALSE, path |-> <<>>]
                 ELSE [ok |-> TRUE, path |-> Join(VideoDirs[dirIndex.val + 1], parts[2])]
    ELSE [ok |-> TRUE, path |-> Join(VideoDir, id)]

\* ------------------------------------------------------------- the disk
\* The bytes of a file, in blocks: the first MiB and the rest.
Bytes(c) == <<c.head, c.tail>>

\* Beside the library the disk holds a file in /v2, the directory next to the
\* root /v, and the file /e.
OutsideFiles == { <<"/", "v", "2", "/", "s", ".mp4">>, <<"/", "e">> }
Directories == { <<"/">>, <<"/", "v">>, <<"/", "w">>, <<"/", "v", "2">> }

NoFile == [exists |-> FALSE, dir |-> FALSE, bytes |-> <<>>]

\* if info.Size() < 10*1024*1024 { return nil }: the size floor of the walks
MinSize == 10 * 1024 * 1024

\* An entry of a root: the root's index, the name, directory or file.
Entry(root, name, isDir) == [root |-> root, name |-> name, isDir |-> isDir]

\* Beside the library's videos the roots may hold an AppleDouble companion,
\* a video with an upper-case extension, a text file, a directory named like
\* a video and, in the second root, a video with a colon in its name.
AppleDouble == Entry("0", <<"._", "c", ".mp4">>, FALSE)
UpperCase == Entry("0", <<"c", ".MP4">>, FALSE)
TextFile == Entry("0", <<"c", ".txt">>, FALSE)
VideoNamedDir == Entry("0", <<"d", ".mp4">>, TRUE)
ColonNamed == Entry("1", <<"a", ":", "b", ".mp4">>, FALSE)
Extras == {AppleDouble, UpperCase, TextFile, VideoNamedDir, ColonNamed}

\* The entries in the order the walks visit them: root by root, the names of
\* a directory in byte order.
DiskOrder ==
    <<AppleDouble, Entry("0", <<"a", ".mp4">>, FALSE), Entry("0", <<"b", ".mp4">>, FALSE),
      UpperCase, TextFile, VideoNamedDir, ColonNamed>>

\* The sizes an entry may have: around the floor.  A video of the library
\* is larger than the floor.
Missing == -1
TreeSizes == {MinSize - 1, MinSize, MinSize + 1}
LibSize == 2 * MinSize
Trees == [Extras -> TreeSizes \cup {Missing}]
NoTree == [e \in Extras |-> Missing]

\* The absolute path of an entry.
EntryPath(e) == Join(VideoDirs[IF e.root = "0" THEN 1 ELSE 2], e.name)

\* The lister has not answered.
NoList == [total |-> -1, videos |-> {}]

\* What os.Open / os.Stat find at a cleaned absolute path.  Opening a
\* directory succeeds; reading it yields no bytes.
FileAt(l, path) ==
    IF \E v \in Videos : parseVideoPath(v).path = path /\ l[v] # Absent
    THEN [exists |-> TRUE, dir |-> FALSE,
          bytes |-> Bytes(l[CHOOSE v \in Videos : parseVideoPath(v).path = path])]
    ELSE IF path \in OutsideFiles
         THEN [exists |-> TRUE, dir |-> FALSE, bytes |-> <<"s1", "s2">>]
         ELSE IF path \in Directories
              THEN [exists |-> TRUE, dir |-> TRUE, bytes |-> <<>>]
              ELSE IF \E e \in Extras : EntryPath(e) = path /\ tree[e] # Missing
                   THEN LET e == CHOOSE x \in Extras : EntryPath(x) = path
                        IN [exists |-> TRUE, dir |-> e.isDir,
                            bytes |-> IF e.isDir THEN <<>> ELSE <<"s1", "s2">>]
                   ELSE NoFile

\* ------------------------------------------------------------- the walk
\* strings.HasSuffix
HasSuffix(s, p) == Len(p) <= Len(s) /\ SubSeq(s, Len(s) - Len(p) + 1, Len(s)) = p

\* strings.ToLower (".MP4" is the one piece with upper-case letters)
ToLower(s) == [i \in DOMAIN s |-> IF s[i] = ".MP4" THEN ".mp4" ELSE s[i]]

\* What filepath.WalkDir hands to the callback: the root's index, d.Name(),
\* d.IsDir() and the size d.Info() reports.
Found(e, size) == [root |-> e.root, name |-> e.name, isDir |-> e.isDir, size |-> size]

\* The callback of the walk in VideoListHandler (no search term): the
\* identifier it appends, if any.
ListVisit(d) ==
    IF ~d.isDir /\ HasSuffix(ToLower(d.name), <<".mp4">>)
    THEN IF HasPrefix(d.name, <<"._">>) THEN <<>>
         ELSE IF d.size < MinSize THEN <<>>
         ELSE <<Address(d.root, d.name)>>
    ELSE <<>>

\* (variant: the thumbnail walk has no size floor)
ThumbnailVisitAnySize(d) ==
    IF ~d.isDir /\ HasSuffix(ToLower(d.name), <<".mp4">>)
    THEN IF HasPrefix(d.name, <<"._">>) THEN <<>>
         ELSE <<Address(d.root, d.name)>>
    ELSE <<>>

\* The callback of the walk in ThumbnailGenerator.GenerateAll.
ThumbnailVisit(d) ==
    IF ~d.isDir /\ HasSuffix(ToLower(d.name), <<".mp4">>)
    THEN IF HasPrefix(d.name, <<"._">>) THEN <<>>
         ELSE IF d.size < MinSize THEN <<>>
         ELSE <<Address(d.root, d.name)>>
    ELSE <<>>

\* (variant: the preview walk keeps the AppleDouble companions)
PreviewVisitCompanions(d) ==
    IF ~d.isDir /\ HasSuffix(ToLower(d.name), <<".mp4">>)
    THEN IF d.size < MinSize THEN <<>>
         ELSE <<Address(d.root, d.name)>>
    ELSE <<>>

\* The callback of the walk in PreviewGenerator.GenerateAll.
PreviewVisit(d) ==
    IF ~d.isDir /\ HasSuffix(ToLower(d.name), <<".mp4">>)
    THEN IF HasPrefix(d.name, <<"._">>) THEN <<>>
         ELSE IF d.size < MinSize THEN <<>>
         ELSE <<Address(d.root, d.name)>>
    ELSE <<>>

Visit(who, d) ==
    IF who = "list" THEN ListVisit(d)
    ELSE IF who = "thumbnail" THEN ThumbnailVisit(d)
    ELSE PreviewVisit(d)

\* The size of an entry of the roots, Missing when it is not there.
SizeOf(l, t, e) ==
    IF e \in Extras THEN t[e]
    ELSE IF l[Address(e.root, e.name)] = Absent THEN Missing ELSE LibSize

\* for dirIndex, videoDir := range VideoDirs { filepath.WalkDir(...) }: the
\* identifiers one of the three walks collects, in walk order.
RECURSIVE Walk(_, _, _, _)
Walk(who, l, t, i) ==
    IF i > Len(DiskOrder) THEN <<>>
    ELSE (IF SizeOf(l, t, DiskOrder[i]) = Missing THEN <<>>
          ELSE Visit(who, Found(DiskOrder[i], SizeOf(l, t, DiskOrder[i]))))
         \o Walk(who, l, t, i + 1)

Enumerate(who, l, t) == Walk(who, l, t, 1)

\* ------------------------------------------------------- the stats table
\* The clients that post view and like events.
Clients == {"c1", "c2"}

\* sql.NullTime
NullTime == [valid |-> FALSE, time |-> 0]

\* A row of video_stats (without its hash columns); exists = FALSE: no row.
NoRow == [exists |-> FALSE, views |-> 0, likes |-> 0, liked |-> FALSE,
          lastViewed |-> NullTime, hotness |-> 0]

\* The locals of a view or like handler.
NoLocals == [op |-> "none", path |-> <<>>, liked |-> FALSE, newLiked |-> FALSE,
             views |-> 0, likes |-> 0, lastViewed |-> NullTime]

NoSnapshot == [views |-> 0, likes |-> 0]
\* What a reader got: the row, for a like request also ToggleLike's return
\* value, and (not sent) the snapshot the row's hotness was computed from.
NoSeen == [op |-> "none", path |-> <<>>, row |-> NoRow, liked |-> FALSE,
           from |-> NoSnapshot]

\* (variant: the conflict branch stores the inserted value, excluded.views)
ViewUpsertReset(row, t) ==
    [row EXCEPT !.exists = TRUE, !.views = 1, !.lastViewed = [valid |-> TRUE, time |-> t]]

\* IncrementViews' statement: INSERT .. views = 1 .. ON CONFLICT(path) DO
\* UPDATE SET views = views + 1, last_viewed = now.
ViewUpsert(row, t) ==
    IF row.exists
    THEN [row EXCEPT !.views = @ + 1, !.lastViewed = [valid |-> TRUE, time |-> t]]
    ELSE [NoRow EXCEPT !.exists = TRUE, !.views = 1,
                       !.lastViewed = [valid |-> TRUE, time |-> t]]

\* (variant: the unlike branch forgets likes = likes - 1)
LikeUpsertNoDecrement(row, liked) ==
    IF liked THEN [row EXCEPT !.exists = TRUE, !.liked = FALSE]
    ELSE [row EXCEPT !.exists = TRUE, !.likes = @ + 1, !.liked = TRUE]

\* ToggleLike's statement, chosen by the liked value read before it: the
\* unlike upsert (likes - 1, liked = 0) or the like upsert (likes + 1,
\* liked = 1); on a missing row the inserted values.
LikeUpsert(row, liked) ==
    IF liked
    THEN IF row.exists THEN [row EXCEPT !.likes = @ - 1, !.liked = FALSE]
                       ELSE [NoRow EXCEPT !.exists = TRUE]
    ELSE IF row.exists THEN [row EXCEPT !.likes = @ + 1, !.liked = TRUE]
                       ELSE [NoRow EXCEPT !.exists = TRUE, !.likes = 1, !.liked = TRUE]

\* (variant: a row never viewed counts as viewed long ago)
DaysSinceViewedLongAgo(lastViewed, t) == IF lastViewed.valid THEN t - lastViewed.time ELSE 7

\* time.Since(lastViewed).Hours() / 24; 0 when last_viewed is NULL.
DaysSinceViewed(lastViewed, t) == IF lastViewed.valid THEN t - lastViewed.time ELSE 0

RecencyBonus(days) == IF days < 7 THEN (7 - days) * 10 ELSE 0

\* (variant: a like weighs as much as a view)
HotnessFlat(views, likes, days) == views + likes + RecencyBonus(days)

\* updateHotness: views * 1.0 + likes * 5.0 + recencyBonus
Hotness(views, likes, days) == views * 1 + likes * 5 + RecencyBonus(days)

\* ------------------------------------------------ requests and responses
NoRange == [present |-> FALSE, parts |-> <<>>]
NoReq == [endpoint |-> "none", id |-> <<>>, range |-> NoRange]

NoContentRange == [form |-> "none", start |-> 0, end |-> 0, size |-> 0]
\* code 0: no response yet.  opened: the video file the handler (or a tool it
\* ran) opened; served: the artifact file handed to c.File; hasLength /
\* length: the Content-Length header the handler set.
NoHResp == [code |-> 0, error |-> "", hasLength |-> FALSE, length |-> 0,
            acceptRanges |-> FALSE, contentRange |-> NoContentRange,
            body |-> <<>>, opened |-> <<>>, served |-> <<>>]

\* c.JSON(code, gin.H{"error": msg})
ErrorResp(code, msg) == [NoHResp EXCEPT !.code = code, !.error = msg]

\* The security check of the three handlers: the cleaned absolute path
\* begins with the absolute form of one of the roots.
Allowed(absPath) == \E i \in 1..Len(VideoDirs) : HasPrefix(absPath, Abs(VideoDirs[i]))

\* A Range header is "bytes=" and the fields between its dashes (no spaces,
\* no commas); a field is empty, a numeral, or something else.
\* strconv.ParseInt of one field.
ParseInt(part) == [ok |-> part.form = "num", val |-> IF part.form = "num" THEN part.val ELSE 0]

NoRanges == [err |-> "nil", has |-> FALSE, start |-> 0, length |-> 0]
InvalidRange == [NoRanges EXCEPT !.err = "invalid range"]
NoOverlap == [NoRanges EXCEPT !.err = "invalid range: failed to overlap"]
OneRange(start, length) == [NoRanges EXCEPT !.has = TRUE, !.start = start, !.length = length]

\* net/http's parseRange for such a header and a file of this size: the text
\* is cut at its first dash into start and end.  A third field leaves a dash
\* in end, which is then no numeral; an empty text holds no range at all.
parseRange(range, size) ==
    LET fields == range.parts
        start == fields[1]
        end == fields[2]
    IN IF ~range.present THEN NoRanges
       ELSE IF Len(fields) = 1 /\ start.form = "empty" THEN NoRanges  \* "bytes=" alone
       ELSE IF Len(fields) < 2 THEN InvalidRange
       ELSE IF start.form = "empty"
            THEN \* bytes=-N: the last N bytes
                 IF Len(fields) > 2 \/ ~ParseInt(end).ok THEN InvalidRange
                 ELSE LET i == IF ParseInt(end).val > size THEN size ELSE ParseInt(end).val
                      IN OneRange(size - i, i)
            ELSE IF ~ParseInt(start).ok THEN InvalidRange
                 ELSE IF ParseInt(start).val >= size THEN NoOverlap
                 ELSE IF Len(fields) = 2 /\ end.form = "empty"
                      THEN OneRange(ParseInt(start).val, size - ParseInt(start).val)
                      ELSE IF Len(fields) > 2 \/ ~ParseInt(end).ok
                                \/ ParseInt(start).val > ParseInt(end).val
                           THEN InvalidRange
                           ELSE LET i == IF ParseInt(end).val >= size THEN size - 1
                                         ELSE ParseInt(end).val
                                IN OneRange(ParseInt(start).val, i - ParseInt(start).val + 1)

\* (variant: the Content-Length header is not set)
WholeFileNoLength(path, bytes) ==
    [NoHResp EXCEPT !.code = 200, !.acceptRanges = TRUE, !.body = bytes, !.opened = path]

\* No range to serve: 200 and the entire content.
WholeFile(path, bytes) ==
    [NoHResp EXCEPT !.code = 200, !.hasLength = TRUE, !.length = Len(bytes),
                    !.acceptRanges = TRUE, !.body = bytes, !.opened = path]

\* (variant: the seek to the start of the range is missing)
PartialFromZero(path, bytes, start, length) ==
    [NoHResp EXCEPT !.code = 206, !.hasLength = TRUE, !.length = length,
                    !.acceptRanges = TRUE,
                    !.contentRange = [form |-> "range", start |-> start,
                                      end |-> start + length - 1, size |-> Len(bytes)],
                    !.body = SubSeq(bytes, 1, length), !.opened = path]

\* One range: 206, Content-Range, and io.CopyN of its length after the seek.
Partial(path, bytes, start, length) ==
    [NoHResp EXCEPT !.code = 206, !.hasLength = TRUE, !.length = length,
                    !.acceptRanges = TRUE,
                    !.contentRange = [form |-> "range", start |-> start,
                                      end |-> start + length - 1, size |-> Len(bytes)],
                    !.body = SubSeq(bytes, start + 1, start + length), !.opened = path]

\* http.Error(w, err.Error(), 416), after the handler's own headers.
RangeError(path, msg) ==
    [NoHResp EXCEPT !.code = 416, !.error = msg, !.acceptRanges = TRUE,
                    !.body = <<msg>>, !.opened = path]

\* http.ServeContent for an open file with these bytes (a request without
\* conditional headers).
ServeContent(path, bytes, range) ==
    LET size == Len(bytes)
        ranges == parseRange(range, size)
    IN IF ranges.err = NoOverlap.err /\ size # 0
       THEN [RangeError(path, ranges.err) EXCEPT
                !.contentRange = [form |-> "unsatisfied", start |-> 0, end |-> 0,
                                  size |-> size]]
       ELSE IF ranges.err = InvalidRange.err
            THEN RangeError(path, ranges.err)
            ELSE IF ranges.has
                 THEN Partial(path, bytes, ranges.start, ranges.length)
                 ELSE WholeFile(path, bytes)

\* StreamVideo: the response to GET /api/video/<id>.
StreamResponse(l, id, range) ==
    LET parsed == parseVideoPath(id)
        absPath == Abs(parsed.path)
        file == FileAt(l, absPath)
    IN IF ~parsed.ok THEN ErrorResp(400, "Invalid path")
       ELSE IF ~Allowed(absPath) THEN ErrorResp(403, "Access denied")
       ELSE IF ~file.exists THEN ErrorResp(404, "Video not found")
       ELSE ServeContent(absPath, file.bytes, range)

\* ------------------------------------------------------------------- Init
\* The two files of the library agree on their first MiB and differ after it.
Original(v) == IF v = VideoOrder[1] THEN [head |-> "h1", tail |-> "t1"]
                                ELSE [head |-> "h1", tail |-> "t2"]

OneVideo == [v \in Videos |-> IF v = VideoOrder[1] THEN Original(v) ELSE Absent]
TwoVideos == [v \in Videos |-> Original(v)]
NoVideo == [v \in Videos |-> Absent]
InitLibs == {OneVideo, TwoVideos}

\* The runs followed in one behaviour.  Runs outside the scope are quiescent:
\* no start request of their kind arrives, and a startup run outside the
\* scope has returned before the first step.  The two kinds write different
\* columns of the stats table and different files of the cache directory,
\* and neither reads what the other writes.
Scopes == { {ApiRun("thumbnail")}, {ApiRun("preview")} }

\* Nobody has asked for a file yet, or the request has just arrived.
InitWeb(reqs) ==
    /\ hreq \in reqs
    /\ hresp = NoHResp

\* The stats table is empty (the process starts on a fresh data directory).
InitStats(callerSets) ==
    /\ callers \in callerSets
    /\ stats = [v \in Videos |-> NoRow]
    /\ now = 0
    /\ cpc = [c \in Clients |-> "idle"]
    /\ cloc = [c \in Clients |-> NoLocals]
    /\ nCalls = 0
    /\ seen = NoSeen
    /\ vdone = [v \in Videos |-> 0]
    /\ ldone = [v \in Videos |-> 0]
    /\ hotOf = [v \in Videos |-> NoSnapshot]

\* The roots hold what the behaviour starts with; the lister has not answered.
InitDisk(trees) ==
    /\ tree \in trees
    /\ listed = NoList

\* main.go asks for the same number of workers at each of its three calls.
InitPool(sizes) == configured \in sizes

InitGen(scopes, libs) ==
    /\ scope \in scopes
    /\ lib \in libs
    /\ libChanges = 0
    /\ db = [v \in Videos |-> NoHashes]
    /\ files = [k \in Kinds |-> [h \in Hashes |-> "none"]]
    /\ temp = [h \in Hashes |-> NoTemp]
    /\ running = [k \in Kinds |-> FALSE]
    /\ progress = [k \in Kinds |-> NoProgress]
    /\ nStart = [k \in Kinds |-> 0]
    /\ resp = NoResp
    /\ gpc = [r \in Runs |-> IF IsApi(r) THEN "idle"
                              ELSE IF r \in scope THEN "start" ELSE "done"]
    /\ videos = [r \in Runs |-> <<>>]
    /\ jobs = [r \in Runs |-> <<>>]
    /\ jobsClosed = [r \in Runs |-> FALSE]
    /\ spc = [r \in Runs |-> "off"]
    /\ results = [r \in Runs |-> <<>>]
    /\ resultsClosed = [r \in Runs |-> FALSE]
    /\ wpc = [r \in Runs |-> [w \in Workers |-> "off"]]
    /\ wjob = [r \in Runs |-> [w \in Workers |-> NoJob]]
    /\ success = [r \in Runs |-> 0]
    /\ failed = [r \in Runs |-> 0]
    /\ handed = [r \in Runs |-> ZeroCount]
    /\ collected = [r \in Runs |-> ZeroCount]
    /\ tools = [r \in Runs |-> NoTools]
    /\ gens = [r \in Runs |-> [h \in Hashes |-> 0]]
    /\ runNo = [k \in Kinds |-> 0]
    /\ clean = [k \in Kinds |-> FALSE]
    /\ second = [r \in Runs |-> FALSE]
    /\ fresh = [r \in Runs |-> FALSE]

\* The batch runs with no other request going on.
InitIn(scopes, libs) == InitGen(scopes, libs) /\ InitDisk({NoTree}) /\ InitPool({NumWorkers}) /\ InitWeb({NoReq}) /\ InitStats({{}})

Init == InitIn(Scopes, InitLibs)

\* ------------------------------------------------- scheduling layer (main)
\* POST /api/thumbnails/generate, POST /api/previews/generate.
Start(k) ==
    /\ ApiRun(k) \in scope
    /\ nStart["thumbnail"] + nStart["preview"] < MaxStarts
    /\ nStart' = [nStart EXCEPT ![k] = @ + 1]
    /\ IF RunFlagSet(k)
       THEN /\ resp' = [op |-> "start", kind |-> k, code |-> 409,
                        progress |-> ConflictProgress(k), run |-> runNo[k]]
            /\ UNCHANGED <<running, progress, gpc, runNo>>
       ELSE /\ running' = [running EXCEPT ![k] = TRUE]
            /\ progress' = [progress EXCEPT ![k].Running = TRUE]
            /\ gpc' = [gpc EXCEPT ![ApiRun(k)] = "start"]
            /\ runNo' = [runNo EXCEPT ![k] = @ + 1]
            /\ resp' = [op |-> "start", kind |-> k, code |-> 200,
                        progress |-> NoProgress, run |-> runNo'[k]]
    /\ UNCHANGED <<auxVars, envVars, storeVars, chanVars, countVars, ghostVars, wpc, wjob>>

\* GET /api/thumbnails/status, GET /api/previews/status.
Status(k) ==
    /\ ApiRun(k) \in scope
    /\ resp' = [op |-> "status", kind |-> k, code |-> 200,
                progress |-> progress[k], run |-> runNo[k]]
    /\ UNCHANGED <<auxVars, envVars, storeVars, running, progress, nStart, runNo, gpc,
                   chanVars, countVars, ghostVars, wpc, wjob>>

\* The goroutine of a run after GenerateAll has returned: an API run clears
\* its kind's flag under genMutex; the startup goroutine just ends.
RunGoroutineEnd(r) ==
    /\ r \in scope
    /\ gpc[r] \in {"ret", "reterr"}
    /\ IF IsApi(r)
       THEN /\ running' = [running EXCEPT ![KindOf(r)] = FALSE]
            /\ progress' = [progress EXCEPT ![KindOf(r)].Running = FALSE]
            /\ gpc' = [gpc EXCEPT ![r] = "idle"]
       ELSE /\ gpc' = [gpc EXCEPT ![r] = "done"]
            /\ UNCHANGED <<running, progress>>
    \* GenerateAll's locals and channels are gone with its frame
    /\ videos' = [videos EXCEPT ![r] = <<>>]
    /\ jobsClosed' = [jobsClosed EXCEPT ![r] = FALSE]
    /\ spc' = [spc EXCEPT ![r] = "off"]
    /\ resultsClosed' = [resultsClosed EXCEPT ![r] = FALSE]
    /\ wpc' = [wpc EXCEPT ![r] = [w \in Workers |-> "off"]]
    /\ success' = [success EXCEPT ![r] = 0]
    /\ failed' = [failed EXCEPT ![r] = 0]
    /\ handed' = [handed EXCEPT ![r] = ZeroCount]
    /\ collected' = [collected EXCEPT ![r] = ZeroCount]
    /\ tools' = [tools EXCEPT ![r] = NoTools]
    /\ gens' = [gens EXCEPT ![r] = [h \in Hashes |-> 0]]
    /\ second' = [second EXCEPT ![r] = FALSE]
    /\ fresh' = [fresh EXCEPT ![r] = FALSE]
    /\ UNCHANGED <<auxVars, envVars, storeVars, nStart, resp, runNo, jobs, results, wjob, clean>>

\* ----------------------------------------------------------- environment
\* A file of the library is removed, or put back, from outside.
LibraryChange(v, c) ==
    /\ libChanges < MaxLibChanges
    /\ c # lib[v]
    /\ lib' = [lib EXCEPT ![v] = c]
    /\ libChanges' = libChanges + 1
    /\ clean' = [k \in Kinds |-> FALSE]
    /\ second' = [r \in Runs |-> FALSE]
    /\ fresh' = [r \in Runs |-> FALSE]
    /\ UNCHANGED <<auxVars, scope, storeVars, schedVars, gpc, chanVars, countVars, wpc,
                   wjob, handed, collected, tools, gens>>

\* A file of the library is renamed from outside, to a name that is free.
Rename(v, u) ==
    /\ libChanges < MaxLibChanges
    /\ lib[v] # Absent /\ lib[u] = Absent
    /\ lib' = [lib EXCEPT ![v] = Absent, ![u] = lib[v]]
    /\ libChanges' = libChanges + 1
    /\ clean' = [k \in Kinds |-> FALSE]
    /\ second' = [r \in Runs |-> FALSE]
    /\ fresh' = [r \in Runs |-> FALSE]
    /\ UNCHANGED <<auxVars, scope, storeVars, schedVars, gpc, chanVars, countVars, wpc,
                   wjob, handed, collected, tools, gens>>

\* ------------------------------------------- GenerateAll: the worker pool
\* MkdirAll, the walk over the roots, the two channels (both buffered to
\* len(videos)) and the start of the workers.  A failed MkdirAll returns at
\* once.
GenerateAllBegin(r, mkdirOk) ==
    /\ r \in scope
    /\ gpc[r] = "start"
    /\ IF mkdirOk
       THEN /\ gpc' = [gpc EXCEPT ![r] = "collect"]
            /\ videos' = [videos EXCEPT ![r] = Enumerate(KindOf(r), lib, tree)]
            /\ wpc' = [wpc EXCEPT ![r] =
                         [w \in Workers |->
                            IF w <= PoolSize(NewGenerator(configured)) THEN "recv" ELSE "off"]]
            /\ second' = [second EXCEPT ![r] = clean[KindOf(r)]]
            /\ fresh' = [fresh EXCEPT ![r] = TRUE]
            /\ spc' = [spc EXCEPT ![r] = "send"]
       ELSE /\ gpc' = [gpc EXCEPT ![r] = "reterr"]
            /\ videos' = [videos EXCEPT ![r] = <<>>]
            /\ wpc' = [wpc EXCEPT ![r] = [w \in Workers |-> "off"]]
            /\ spc' = [spc EXCEPT ![r] = "off"]
            /\ second' = [second EXCEPT ![r] = FALSE]
            /\ fresh' = [fresh EXCEPT ![r] = FALSE]
    /\ jobs' = [jobs EXCEPT ![r] = <<>>]
    /\ jobsClosed' = [jobsClosed EXCEPT ![r] = FALSE]
    /\ results' = [results EXCEPT ![r] = <<>>]
    /\ resultsClosed' = [resultsClosed EXCEPT ![r] = FALSE]
    /\ success' = [success EXCEPT ![r] = 0]
    /\ failed' = [failed EXCEPT ![r] = 0]
    /\ handed' = [handed EXCEPT ![r] = ZeroCount]
    /\ collected' = [collected EXCEPT ![r] = ZeroCount]
    /\ tools' = [tools EXCEPT ![r] = NoTools]
    /\ gens' = [gens EXCEPT ![r] = [h \in Hashes |-> 0]]
    /\ UNCHANGED <<auxVars, envVars, storeVars, schedVars, wjob, clean>>

\* The sender goroutine: every captured identifier goes into the jobs
\* channel (no send blocks, the buffer holds them all), then close(jobs).
SendJobs(r) ==
    /\ r \in scope
    /\ spc[r] = "send"
    /\ spc' = [spc EXCEPT ![r] = "end"]
    /\ jobs' = [jobs EXCEPT ![r] = videos[r]]
    /\ jobsClosed' = [jobsClosed EXCEPT ![r] = SenderCloses]
    /\ UNCHANGED <<auxVars, envVars, storeVars, schedVars, gpc, videos, results, resultsClosed,
                   wpc, wjob, countVars, ghostVars>>

WorkerFrame ==
    UNCHANGED <<auxVars, envVars, schedVars, gpc, videos, jobsClosed, spc, resultsClosed, countVars,
                collected, clean, second, fresh>>

\* A job ends: its result goes into the results channel (never blocks).
Emit(r, w, err) ==
    /\ results' = [results EXCEPT ![r] = Append(@, [path |-> wjob[r][w].path, err |-> err])]
    /\ wpc' = [wpc EXCEPT ![r][w] = IF WorkerContinues(err) THEN "recv" ELSE "exit"]
    /\ wjob' = [wjob EXCEPT ![r][w] = NoJob]

Goto(r, w, pc, job) ==
    /\ results' = results
    /\ wpc' = [wpc EXCEPT ![r][w] = pc]
    /\ wjob' = [wjob EXCEPT ![r][w] = job]

Count(r, field) == tools' = [tools EXCEPT ![r][field] = @ + 1]

\* A worker receives the next identifier from the jobs channel.
WorkerRecv(r, w) ==
    /\ r \in scope
    /\ wpc[r][w] = "recv"
    /\ jobs[r] # <<>>
    /\ jobs' = [jobs EXCEPT ![r] = Receive(@)]
    /\ handed' = [handed EXCEPT ![r][Head(jobs[r])] = @ + 1]
    /\ Goto(r, w, "tierA", [NoJob EXCEPT !.path = Head(jobs[r])])
    /\ UNCHANGED <<storeVars, tools, gens>>
    /\ WorkerFrame

\* range over a closed and drained jobs channel ends; wg.Done().
WorkerExit(r, w) ==
    /\ r \in scope
    /\ wpc[r][w] = "recv"
    /\ jobs[r] = <<>> /\ jobsClosed[r]
    /\ Goto(r, w, "exit", NoJob)
    /\ UNCHANGED <<storeVars, jobs, handed, tools, gens>>
    /\ WorkerFrame

\* (variant: a content hit returns without recording the mapping)
ContentHitForgets(d, v, k, h) == d

\* Tier (b) hit: "File exists, just update database".
ContentHit(d, v, k, h) == SetHash(d, v, k, h)

\* Tier (a): the recorded hash and os.Stat of its artifact.
WorkerTierA(r, w) ==
    /\ r \in scope
    /\ wpc[r][w] = "tierA"
    /\ IF TierAHit(KindOf(r), wjob[r][w].path)
       THEN Emit(r, w, FALSE)
       ELSE Goto(r, w, "hash", wjob[r][w])
    /\ UNCHANGED <<storeVars, jobs, handed, tools, gens>>
    /\ WorkerFrame

\* storage.GetFileContentHash: fails when the file cannot be opened.
WorkerHash(r, w) ==
    /\ r \in scope
    /\ wpc[r][w] = "hash"
    /\ Count(r, "hash")
    /\ IF lib[wjob[r][w].path] = Absent
       THEN Emit(r, w, TRUE)
       ELSE Goto(r, w, "tierB",
                 [wjob[r][w] EXCEPT !.hash = GetFileContentHash(lib[wjob[r][w].path])])
    /\ UNCHANGED <<storeVars, jobs, handed, gens>>
    /\ WorkerFrame

\* Tier (b): os.Stat of the artifact under the fresh fingerprint; a hit
\* records the mapping.
WorkerTierB(r, w) ==
    /\ r \in scope
    /\ wpc[r][w] = "tierB"
    /\ IF TierBHit(KindOf(r), wjob[r][w].hash)
       THEN /\ db' = ContentHit(db, wjob[r][w].path, KindOf(r), wjob[r][w].hash)
            /\ Emit(r, w, FALSE)
       ELSE /\ Goto(r, w, "probe", wjob[r][w])
            /\ UNCHANGED db
    /\ UNCHANGED <<files, temp, jobs, handed, tools, gens>>
    /\ WorkerFrame

\* ffprobe for the duration (it cannot succeed on a file that is gone); when
\* it succeeds the generation tool is started: for a thumbnail the one ffmpeg
\* run at the middle point, for a preview the segment runs (in the segment
\* directory, created first) and the concat.
WorkerProbe(r, w, ok) ==
    /\ r \in scope
    /\ wpc[r][w] = "probe"
    /\ ok => lib[wjob[r][w].path] # Absent
    /\ IF ok
       THEN /\ LET duration == Duration(KindOf(r), ParseFloat(lib[wjob[r][w].path]))
               IN Goto(r, w, "gen",
                       [wjob[r][w] EXCEPT !.duration = duration,
                                          !.ss = IF KindOf(r) = "thumbnail"
                                                 THEN middlePoint(duration) ELSE NoSeek])
            /\ gens' = [gens EXCEPT ![r][wjob[r][w].hash] = @ + 1]
            /\ temp' = IF KindOf(r) = "preview"
                       THEN MkdirAll(temp, wjob[r][w].hash) ELSE temp
       ELSE /\ Emit(r, w, TRUE)
            /\ UNCHANGED <<gens, temp>>
    /\ Count(r, "probe")
    /\ UNCHANGED <<db, files, jobs, handed>>
    /\ WorkerFrame

\* A preview job is cutting segments: the segment runs and the concat, not
\* the fallback invocation.
Segmenting(r, w) == KindOf(r) = "preview" /\ ~wjob[r][w].fallback

\* The generation tool opens its output (-y: an existing file is truncated).
\* For the segments of a preview this is the concat invocation: every segment
\* run has written its seg<i>.ts, which it cannot do in a directory that has
\* been removed.
WorkerGenOpen(r, w) ==
    /\ r \in scope
    /\ wpc[r][w] = "gen"
    /\ Segmenting(r, w) => temp[wjob[r][w].hash].dir
    /\ files' = [files EXCEPT ![KindOf(r)][wjob[r][w].hash] = "partial"]
    /\ temp' = IF Segmenting(r, w)
               THEN WriteSegments(temp, wjob[r][w].hash, <<r, w>>) ELSE temp
    /\ Goto(r, w, "genw", wjob[r][w])
    /\ UNCHANGED <<db, jobs, handed, tools, gens>>
    /\ WorkerFrame

\* The generation tool exits.  Success (the concat needs segment files to
\* read): the artifact is complete and the hash is recorded.  Failure: a thumbnail job fails; a preview job whose segment
\* or concat step failed starts the fallback invocation, and fails when the
\* fallback fails too.
WorkerGenEnd(r, w, ok) ==
    /\ r \in scope
    /\ wpc[r][w] \in {"gen", "genw"}
    /\ ok => wpc[r][w] = "genw"
    /\ (ok /\ Segmenting(r, w)) => temp[wjob[r][w].hash].seg # NoOwner
    /\ IF ok
       THEN /\ files' = [files EXCEPT ![KindOf(r)][wjob[r][w].hash] = "done"]
            /\ db' = SetHash(db, wjob[r][w].path, KindOf(r), wjob[r][w].hash)
            /\ temp' = Return(temp, KindOf(r), wjob[r][w].hash)
            /\ Emit(r, w, FALSE)
            /\ UNCHANGED gens
       ELSE IF Segmenting(r, w)
            THEN /\ Goto(r, w, "gen", [wjob[r][w] EXCEPT !.fallback = TRUE,
                                                          !.ss = midPoint(wjob[r][w].duration)])
                 /\ gens' = [gens EXCEPT ![r][wjob[r][w].hash] = @ + 1]
                 /\ UNCHANGED storeVars
            ELSE /\ Emit(r, w, TRUE)
                 /\ temp' = Return(temp, KindOf(r), wjob[r][w].hash)
                 /\ UNCHANGED <<db, files, gens>>
    /\ UNCHANGED <<jobs, handed, tools>>
    /\ WorkerFrame

\* wg.Wait(); close(results).
CloseResults(r) ==
    /\ r \in scope
    /\ gpc[r] = "collect"
    /\ ~resultsClosed[r]
    /\ \A w \in Workers : wpc[r][w] \in {"exit", "off"}
    /\ resultsClosed' = [resultsClosed EXCEPT ![r] = TRUE]
    /\ UNCHANGED <<auxVars, envVars, storeVars, schedVars, gpc, videos, jobs, jobsClosed, spc,
                   results, wpc, wjob, countVars, ghostVars>>

\* for result := range results: one result is counted and, for a run started
\* by the API, the callback publishes (total, success, failed).
Collect(r) ==
    /\ r \in scope
    /\ gpc[r] = "collect"
    /\ results[r] # <<>>
    /\ results' = [results EXCEPT ![r] = Tail(@)]
    /\ success' = [success EXCEPT ![r] = IF Head(results[r]).err THEN @ ELSE @ + 1]
    /\ failed' = [failed EXCEPT ![r] = IF Head(results[r]).err THEN @ + 1 ELSE @]
    /\ collected' = [collected EXCEPT ![r][Head(results[r]).path] = @ + 1]
    /\ progress' = IF IsApi(r)
                   THEN [progress EXCEPT ![KindOf(r)] =
                            CallbackWrite(@, Len(videos[r]), success'[r], failed'[r])]
                   ELSE progress
    /\ UNCHANGED <<auxVars, envVars, storeVars, running, nStart, resp, runNo, gpc, videos, jobs,
                   jobsClosed, spc, resultsClosed, wpc, wjob, handed, tools, gens, clean,
                   second, fresh>>

\* The results channel is closed and drained: GenerateAll returns nil.
CollectDone(r) ==
    /\ r \in scope
    /\ gpc[r] = "collect"
    /\ results[r] = <<>> /\ resultsClosed[r]
    /\ gpc' = [gpc EXCEPT ![r] = "ret"]
    /\ clean' = [clean EXCEPT ![KindOf(r)] = @ \/ (failed[r] = 0 /\ fresh[r])]
    /\ UNCHANGED <<auxVars, envVars, storeVars, schedVars, chanVars, wpc, wjob, countVars,
                   handed, collected, tools, gens, second, fresh>>

\* ------------------------------------------------ serving files on demand
\* GET /api/video/<id>: StreamVideo.
StreamVideo ==
    /\ hreq.endpoint = "stream"
    /\ hresp = NoHResp
    /\ hresp' = StreamResponse(lib, hreq.id, hreq.range)
    /\ UNCHANGED <<genVars, statVars, walkVars, poolVars, hreq>>

Ext(k) == IF k = "thumbnail" THEN ".jpg" ELSE ".mp4"

\* filepath.Join(cfg.ThumbnailDir, hash + ext)
ArtifactPath(k, h) == <<"/", "cache", "/", h, Ext(k)>>

\* c.File(artifact)
FileResp(k, h, openedVideo) ==
    [NoHResp EXCEPT !.code = 200, !.served = ArtifactPath(k, h), !.opened = openedVideo]

\* (variant: the generator's error is dropped and c.File finds no file)
GenerateFailedIgnored(absVideoPath) ==
    [NoHResp EXCEPT !.code = 404, !.opened = absVideoPath]

\* generateThumbnail / generatePreview returned an error.
GenerateFailed(absVideoPath) ==
    [ErrorResp(500, "Failed to generate") EXCEPT !.opened = absVideoPath]

\* GET /api/thumbnail?video=<id>, GET /api/preview?video=<id>: GetThumbnail and
\* GetPreview, the generation they fall back to included (a generator with one
\* worker, run inside the request).  tool: how the external tools end
\* ("probe": ffprobe fails; "gen": every ffmpeg attempt fails before it opens
\* its output; "genPartial": it fails after that; "ok").
GetArtifact(k, tool) ==
    /\ hreq.endpoint = k
    /\ hresp = NoHResp
    /\ LET videoPath == hreq.id
           parsed == parseVideoPath(videoPath)
           absVideoPath == Abs(parsed.path)
           file == FileAt(lib, absVideoPath)
           contentHash == GetFileContentHash([head |-> file.bytes[1], tail |-> file.bytes[2]])
       IN IF videoPath = <<>>
          THEN hresp' = ErrorResp(400, "No video specified") /\ UNCHANGED storeVars
          ELSE IF ~parsed.ok
          THEN hresp' = ErrorResp(400, "Invalid video path") /\ UNCHANGED storeVars
          ELSE IF ~Allowed(absVideoPath)
          THEN hresp' = ErrorResp(403, "Access denied") /\ UNCHANGED storeVars
          ELSE IF ~file.exists
          THEN hresp' = ErrorResp(404, "Video not found") /\ UNCHANGED storeVars
          ELSE IF TierAHit(k, videoPath)
          THEN hresp' = FileResp(k, GetHash(db, videoPath, k), <<>>) /\ UNCHANGED storeVars
          ELSE IF file.dir
          THEN /\ hresp' = [ErrorResp(500, "Failed to calculate content hash")
                               EXCEPT !.opened = absVideoPath]
               /\ UNCHANGED storeVars
          ELSE IF TierBHit(k, contentHash)
          THEN /\ db' = ContentHit(db, videoPath, k, contentHash)
               /\ hresp' = FileResp(k, contentHash, absVideoPath)
               /\ UNCHANGED <<files, temp>>
          ELSE IF tool = "ok"
          THEN /\ files' = [files EXCEPT ![k][contentHash] = "done"]
               /\ db' = SetHash(db, videoPath, k, contentHash)
               /\ temp' = Return(temp, k, contentHash)
               /\ hresp' = FileResp(k, contentHash, absVideoPath)
          ELSE /\ files' = IF tool = "genPartial"
                           THEN [files EXCEPT ![k][contentHash] = "partial"]
                           ELSE files
               /\ temp' = IF tool = "probe" THEN temp ELSE Return(temp, k, contentHash)
               /\ hresp' = GenerateFailed(absVideoPath)
               /\ UNCHANGED db
    /\ UNCHANGED <<envVars, schedVars, gpc, chanVars, wpc, wjob, countVars, ghostVars,
                   statVars, walkVars, poolVars, hreq>>

ToolEnds == {"probe", "gen", "genPartial", "ok"}

\* The response has gone out and the next request comes in.
Arrive(req) ==
    /\ hresp # NoHResp
    /\ hreq' = req
    /\ hresp' = NoHResp
    /\ UNCHANGED <<genVars, statVars, walkVars, poolVars>>

\* ------------------------------------------------- view and like events
\* The database handle has one connection (SetMaxOpenConns(1)): statements
\* run one at a time, and a handler's statements are not in a transaction, so
\* other handlers' statements run between them.
StatFrame == UNCHANGED <<genVars, webVars, walkVars, poolVars, callers>>

\* POST /api/view: IncrementViews' upsert.
ViewBegin(c, v) ==
    /\ c \in callers
    /\ cpc[c] = "idle"
    /\ nCalls < MaxCalls
    /\ nCalls' = nCalls + 1
    /\ stats' = [stats EXCEPT ![v] = ViewUpsert(@, now)]
    /\ cloc' = [cloc EXCEPT ![c] = [NoLocals EXCEPT !.op = "view", !.path = v]]
    /\ cpc' = [cpc EXCEPT ![c] = "hotSelect"]
    /\ UNCHANGED <<now, seen, vdone, ldone, hotOf>>
    /\ StatFrame

\* POST /api/like: ToggleLike's SELECT liked.
LikeBegin(c, v) ==
    /\ c \in callers
    /\ cpc[c] = "idle"
    /\ nCalls < MaxCalls
    /\ nCalls' = nCalls + 1
    /\ cloc' = [cloc EXCEPT ![c] = [NoLocals EXCEPT !.op = "like", !.path = v,
                                      !.liked = stats[v].liked,
                                      !.newLiked = ~stats[v].liked]]
    /\ cpc' = [cpc EXCEPT ![c] = "likeUpsert"]
    /\ UNCHANGED <<stats, now, seen, vdone, ldone, hotOf>>
    /\ StatFrame

\* ToggleLike's upsert.
LikeWrite(c) ==
    /\ c \in callers
    /\ cpc[c] = "likeUpsert"
    /\ stats' = [stats EXCEPT ![cloc[c].path] = LikeUpsert(@, cloc[c].liked)]
    /\ cpc' = [cpc EXCEPT ![c] = "hotSelect"]
    /\ UNCHANGED <<now, cloc, nCalls, seen, vdone, ldone, hotOf>>
    /\ StatFrame

\* updateHotness: SELECT views, likes, last_viewed.
HotSelect(c) ==
    /\ c \in callers
    /\ cpc[c] = "hotSelect"
    /\ cloc' = [cloc EXCEPT ![c].views = stats[cloc[c].path].views,
                            ![c].likes = stats[cloc[c].path].likes,
                            ![c].lastViewed = stats[cloc[c].path].lastViewed]
    /\ cpc' = [cpc EXCEPT ![c] = "hotUpdate"]
    /\ UNCHANGED <<stats, now, nCalls, seen, vdone, ldone, hotOf>>
    /\ StatFrame

\* updateHotness: the hotness of the values read, with the clock as it is
\* now, and UPDATE video_stats SET hotness.
HotUpdate(c) ==
    /\ c \in callers
    /\ cpc[c] = "hotUpdate"
    /\ stats' = [stats EXCEPT ![cloc[c].path].hotness =
                     Hotness(cloc[c].views, cloc[c].likes,
                             DaysSinceViewed(cloc[c].lastViewed, now))]
    /\ hotOf' = [hotOf EXCEPT ![cloc[c].path] =
                     [views |-> cloc[c].views, likes |-> cloc[c].likes]]
    /\ cpc' = [cpc EXCEPT ![c] = "getStats"]
    /\ UNCHANGED <<now, cloc, nCalls, seen, vdone, ldone>>
    /\ StatFrame

\* The handler's GetStats and its JSON response.
Respond(c) ==
    /\ c \in callers
    /\ cpc[c] = "getStats"
    /\ seen' = [op |-> cloc[c].op, path |-> cloc[c].path, row |-> stats[cloc[c].path],
                liked |-> cloc[c].newLiked, from |-> hotOf[cloc[c].path]]
    /\ vdone' = [vdone EXCEPT ![cloc[c].path] = IF cloc[c].op = "view" THEN @ + 1 ELSE @]
    /\ ldone' = [ldone EXCEPT ![cloc[c].path] = IF cloc[c].op = "like" THEN @ + 1 ELSE @]
    /\ cloc' = [cloc EXCEPT ![c] = NoLocals]
    /\ cpc' = [cpc EXCEPT ![c] = "idle"]
    /\ UNCHANGED <<stats, now, nCalls, hotOf>>
    /\ StatFrame

\* GET /api/videos with no search term and no duration bounds: the walk over
\* the roots, then the sort and the first page (pageSize 50 holds every
\* video of these roots; the order of the page is left out).
VideoListHandler ==
    /\ listed' = LET ids == Enumerate("list", lib, tree)
                 IN [total |-> Len(ids), videos |-> {ids[i] : i \in 1..Len(ids)}]
    /\ listed' # listed
    /\ UNCHANGED <<genVars, webVars, statVars, poolVars, tree>>

\* GET /api/videos: GetAllStats, one row of it.
ReadStats(v) ==
    /\ seen' = [op |-> "read", path |-> v, row |-> stats[v], liked |-> FALSE,
                from |-> hotOf[v]]
    /\ UNCHANGED <<stats, now, cpc, cloc, nCalls, vdone, ldone, hotOf>>
    /\ StatFrame

\* A day passes.
Tick ==
    /\ now < MaxDays
    /\ now' = now + 1
    /\ UNCHANGED <<stats, cpc, cloc, nCalls, seen, vdone, ldone, hotOf>>
    /\ StatFrame

ClientStep(c) ==
    \/ \E v \in Videos : ViewBegin(c, v)
    \/ \E v \in Videos : LikeBegin(c, v)
    \/ LikeWrite(c)
    \/ HotSelect(c)
    \/ HotUpdate(c)
    \/ Respond(c)

\* ------------------------------------------------------------------- Next
WorkerStep(r, w) ==
    \/ WorkerRecv(r, w)
    \/ WorkerExit(r, w)
    \/ WorkerTierA(r, w)
    \/ WorkerHash(r, w)
    \/ WorkerTierB(r, w)
    \/ \E ok \in BOOLEAN : WorkerProbe(r, w, ok)
    \/ WorkerGenOpen(r, w)
    \/ \E ok \in BOOLEAN : WorkerGenEnd(r, w, ok)

RunStep(r) ==
    \/ \E ok \in BOOLEAN : GenerateAllBegin(r, ok)
    \/ SendJobs(r)
    \/ \E w \in Workers : WorkerStep(r, w)
    \/ CloseResults(r)
    \/ Collect(r)
    \/ CollectDone(r)
    \/ RunGoroutineEnd(r)

\* Start requests and the steps of the runs.
NextRuns ==
    \/ \E k \in Kinds : Start(k)
    \/ \E r \in Runs : RunStep(r)

\* ... in a library that changes.
Next ==
    \/ NextRuns
    \/ \E v \in Videos : LibraryChange(v, Absent) \/ LibraryChange(v, Original(v))

\* ... with clients polling the status endpoints.
NextStatus ==
    \/ Next
    \/ \E k \in Kinds : Status(k)

\* The batch runs of one kind started through the API, over a library that
\* changes.
Spec == Init /\ [][Next]_vars

\* The same, observed through the status endpoint.
SpecStatus == Init /\ [][NextStatus]_vars

\* The API runs of both kinds side by side.
InitSched == InitIn({{ApiRun("thumbnail"), ApiRun("preview")}}, {OneVideo})
SpecSched == InitSched /\ [][NextRuns]_vars

\* The run launched at startup next to the API run of the same kind.
InitBoot == InitIn({{ApiRun(k), BootRun(k)} : k \in Kinds}, {OneVideo})
SpecBoot == InitBoot /\ [][NextRuns]_vars

\* Scheduling: the Go runtime keeps running every goroutine that can take a
\* step, and every external tool invocation returns.
Fairness == \A r \in Runs : WF_vars(RunStep(r))
InitLive == InitIn(Scopes, {NoVideo, OneVideo, TwoVideos})
SpecLive == InitLive /\ [][NextRuns]_vars /\ Fairness

\* One batch run over a library of one video: a clip of 20 s, a file without
\* duration, or a video of 40 s.
ClipLibs == {[v \in Videos |-> IF v = VideoOrder[1] THEN [head |-> "h1", tail |-> t] ELSE Absent] :
                t \in {"t1", "t2", "t3"}}
InitClip == InitIn(Scopes, ClipLibs)
SpecClip == InitClip /\ [][NextRuns]_vars

\* Identifiers a client may send: no prefix, the index of a root, an index out
\* of range, or a prefix that is not a numeral; then up to MaxSegs path
\* elements.
SegNames == { <<"..">>, <<"a", ".mp4">>, <<"s", ".mp4">>, <<"v">>, <<"v", "2">>, <<"e">> }
Prefixes == { <<>>, <<"0", ":">>, <<"1", ":">>, <<"2", ":">>, <<"e", ":">> }

RECURSIVE RelPaths(_)
RelPaths(n) ==
    IF n = 0 THEN {<<>>}
    ELSE LET shorter == RelPaths(n - 1)
         IN shorter \cup {(IF r = <<>> THEN sg ELSE r \o <<"/">> \o sg) :
                             r \in shorter, sg \in SegNames}

PathIds == {pre \o rel : pre \in Prefixes, rel \in RelPaths(MaxSegs)}

PathRequests == [endpoint : {"stream"} \cup Kinds, id : PathIds, range : {NoRange}]

\* One request for a file, by any identifier, on an idle server.
NextPath ==
    \/ StreamVideo
    \/ \E k \in Kinds : \E tool \in ToolEnds : GetArtifact(k, tool)

InitPath == InitGen({{}}, {TwoVideos}) /\ InitDisk({NoTree}) /\ InitPool({NumWorkers}) /\ InitWeb(PathRequests) /\ InitStats({{}})
SpecPath == InitPath /\ [][NextPath]_vars

\* Thumbnail and preview requests, one after the other: for the videos, for
\* the first video without prefix, for the root directory itself and for a
\* file that does not exist.
DemandIds == Videos \cup { <<"a", ".mp4">>, <<"0", ":">>, Address("1", <<"a", ".mp4">>) }
DemandRequests == [endpoint : Kinds, id : DemandIds, range : {NoRange}]

NextDemand ==
    \/ \E k \in Kinds : \E tool \in ToolEnds : GetArtifact(k, tool)
    \/ \E req \in DemandRequests : Arrive(req)
    \/ \E v \in Videos : LibraryChange(v, Absent) \/ LibraryChange(v, Original(v))

InitDemand == InitGen({{}}, {TwoVideos}) /\ InitDisk({NoTree}) /\ InitPool({NumWorkers}) /\ InitWeb(DemandRequests) /\ InitStats({{}})
SpecDemand == InitDemand /\ [][NextDemand]_vars

\* Range headers a client may send: "bytes=" and up to three fields between
\* dashes, each field empty, a numeral up to MaxPos, or something else.
RangeFields == {[form |-> "empty", val |-> 0], [form |-> "junk", val |-> 0]}
                 \cup {[form |-> "num", val |-> n] : n \in 0..MaxPos}

RangeHeaders ==
    {NoRange} \cup {[present |-> TRUE, parts |-> ps] :
                       ps \in UNION {[1..n -> RangeFields] : n \in 1..3}}

RangeRequests ==
    [endpoint : {"stream"}, id : Videos \cup {Address("1", <<"a", ".mp4">>)}, range : RangeHeaders]

\* One stream request, with any Range header.
NextRange == StreamVideo
InitRange == InitGen({{}}, {TwoVideos}) /\ InitDisk({NoTree}) /\ InitPool({NumWorkers}) /\ InitWeb(RangeRequests) /\ InitStats({{}})
SpecRange == InitRange /\ [][NextRange]_vars

\* View and like events from two clients at once.
NextStats == \E c \in Clients : ClientStep(c)
InitConc == InitGen({{}}, {TwoVideos}) /\ InitDisk({NoTree}) /\ InitPool({NumWorkers}) /\ InitWeb({NoReq}) /\ InitStats({Clients})
SpecStats == InitConc /\ [][NextStats]_vars

\* Thumbnail and preview requests for the videos, with a client posting view
\* and like events meanwhile.
StoreRequests == [endpoint : Kinds, id : Videos, range : {NoRange}]

NextStore ==
    \/ \E k \in Kinds : \E tool \in {"probe", "ok"} : GetArtifact(k, tool)
    \/ \E req \in StoreRequests : Arrive(req)
    \/ NextStats

InitStore == InitGen({{}}, {TwoVideos}) /\ InitDisk({NoTree}) /\ InitPool({NumWorkers}) /\ InitWeb(StoreRequests) /\ InitStats({{"c1"}})
SpecStore == InitStore /\ [][NextStore]_vars

\* The three walks over roots that hold more than the library: the lister
\* and the batch runs of both kinds up to the end of their walks.
WalkScopes == { {ApiRun("thumbnail"), ApiRun("preview")} }
NextWalk ==
    \/ VideoListHandler
    \/ \E k \in Kinds : Start(k)
    \/ \E r \in Runs, ok \in BOOLEAN : GenerateAllBegin(r, ok)
InitWalk ==
    InitGen(WalkScopes, {OneVideo, TwoVideos}) /\ InitDisk(Trees) /\ InitPool({NumWorkers}) /\ InitWeb({NoReq})
        /\ InitStats({{}})
SpecWalk == InitWalk /\ [][NextWalk]_vars

\* The identifiers the lister hands out, asked for again through the stream
\* endpoint, beside identifiers with an index that is no index of a root.
ResolveIds ==
    {Address(DiskOrder[i].root, DiskOrder[i].name) : i \in 1..Len(DiskOrder)}
        \cup { <<"0", "1", ":", "a", ":", "b", ".mp4">>, <<"2", ":", "a", ".mp4">>,
                <<"e", ":", "a", ".mp4">>, <<":", "a", ".mp4">>, <<"1", "0", ":", "a", ".mp4">>,
                <<"a", ".mp4">>, <<"a", ":", "b", ".mp4">> }
ResolveRequests == [endpoint : {"stream"}, id : ResolveIds, range : {NoRange}]
NextResolve ==
    \/ VideoListHandler
    \/ StreamVideo
    \/ \E req \in ResolveRequests : Arrive(req)
InitResolve ==
    InitGen({{}}, {TwoVideos}) /\ InitDisk(Trees) /\ InitPool({NumWorkers}) /\ InitWeb(ResolveRequests) /\ InitStats({{}})
SpecResolve == InitResolve /\ [][NextResolve]_vars

\* The batch runs of one kind with main.go asking for no worker, for one, or
\* for more.
PoolSizes == 0..NumWorkers
InitPoolRun ==
    InitGen(Scopes, {TwoVideos}) /\ InitDisk({NoTree}) /\ InitPool(PoolSizes)
        /\ InitWeb({NoReq}) /\ InitStats({{}})
SpecPool == InitPoolRun /\ [][NextRuns]_vars

\* The batch runs of one kind over a library whose files are renamed.
NextRename ==
    \/ NextRuns
    \/ \E v, u \in Videos : Rename(v, u)
SpecRename == Init /\ [][NextRename]_vars

\* The batch runs of one kind and the on-demand requests for one video whose
\* file is replaced by a file with another first MiB; the one job of a run
\* is given one worker.
Replacement == [head |-> "s1", tail |-> "t1"]
ReplaceRequests == [endpoint : Kinds, id : {VideoOrder[1]}, range : {NoRange}]
NextReplace ==
    \/ NextRuns
    \/ \E k \in Kinds : \E tool \in {"probe", "ok"} : GetArtifact(k, tool)
    \/ \E req \in ReplaceRequests : Arrive(req)
    \/ LibraryChange(VideoOrder[1], Replacement)
InitReplace ==
    InitGen(Scopes, {OneVideo}) /\ InitDisk({NoTree}) /\ InitPool({1})
        /\ InitWeb(ReplaceRequests) /\ InitStats({{}})
SpecReplace == InitReplace /\ [][NextReplace]_vars

\* ... with the video list being read meanwhile.
NextRead == NextStats \/ \E v \in Videos : ReadStats(v)
SpecRead == InitConc /\ [][NextRead]_vars

\* View and like events one after the other, over the days.
NextSeq == NextStats \/ Tick
InitSeq == InitGen({{}}, {TwoVideos}) /\ InitDisk({NoTree}) /\ InitPool({NumWorkers}) /\ InitWeb({NoReq}) /\ InitStats({{"c1"}})
SpecSeq == InitSeq /\ [][NextSeq]_vars

\* ================================================================ claims
RunState(r) ==
    <<gpc[r], videos[r], jobs[r], jobsClosed[r], spc[r], results[r], resultsClosed[r],
      wpc[r], wjob[r], success[r], failed[r]>>

\* GenerateAll of run r is executing (entered and not yet returned).
Executing(r) == gpc[r] = "collect"

\* C1: at every moment at most one batch run of a kind is executing
\* GenerateAll, whether it was started by the API or at startup.
C1_OneRunPerKind ==
    \A k \in Kinds : Cardinality({r \in Runs : KindOf(r) = k /\ Executing(r)}) <= 1

\* C2: a start request for a kind whose run flag is set is answered 409 with
\* that kind's current progress, starts no generator, and leaves the flag and
\* the counters of the active run as they are.
C2_ConflictLeavesRun ==
    [][\A k \in Kinds :
          (nStart'[k] = nStart[k] + 1 /\ running[k]) =>
             /\ resp'.op = "start" /\ resp'.kind = k /\ resp'.code = 409
             /\ resp'.progress = progress[k]
             /\ running' = running
             /\ progress' = progress
             /\ runNo' = runNo
             /\ \A r \in Runs : RunState(r)' = RunState(r)]_vars

\* A rejected start request that carries the progress of a run under way.
C2_Witness ==
    /\ resp.op = "start" /\ resp.code = 409
    /\ running[resp.kind]
    /\ resp.progress.Running /\ resp.progress.Done + resp.progress.Failed >= 1
    /\ resp.progress = progress[resp.kind]

\* C3: two identifiers with the same fingerprint and no artifact yet: after
\* thumbnails were generated for both by one batch run, both are mapped to
\* <fingerprint>.jpg and the generation tool was invoked exactly once.
C3_OneInvocationPerFingerprint ==
    \A r \in Runs :
        ( /\ KindOf(r) = "thumbnail"
          /\ runNo["thumbnail"] = 1 /\ libChanges = 0 /\ lib = TwoVideos
          /\ gpc[r] = "ret" /\ success[r] = 2 ) =>
            /\ \A v \in Videos : db[v]["thumbnail"] = "h1"
            /\ files["thumbnail"]["h1"] = "done"
            /\ gens[r]["h1"] = 1

\* C4: a run that walks the library after a run of its kind in which every
\* job succeeded, the library being unchanged, invokes neither the probe nor
\* the generation tool.
C4_SecondRunNoTools ==
    \A r \in Runs : second[r] => tools[r].probe = 0 /\ \A h \in Hashes : gens[r][h] = 0

\* A second run over two videos that has completed, every job a success.
C4_Witness ==
    \E r \in Runs : second[r] /\ gpc[r] = "ret" /\ Len(videos[r]) = 2 /\ success[r] = 2

\* C5: the tools are invoked only after both checks missed; a tier-(a) hit
\* computes no fingerprint, writes nothing to the store and invokes no tool;
\* a tier-(b) hit records the mapping and invokes no tool.
C5_JobStep(r, w) ==
    LET k == KindOf(r)
        v == wjob[r][w].path
        h == wjob[r][w].hash
        hitA == db[v][k] # NoHash /\ files[k][db[v][k]] # "none"
        hitB == files[k][h] # "none"
        ok == [path |-> v, err |-> FALSE]
    IN /\ (wpc[r][w] = "tierA" /\ wpc'[r][w] # "tierA") =>
             IF hitA
             THEN /\ results'[r] = Append(results[r], ok)
                  /\ tools' = tools /\ gens' = gens /\ db' = db /\ files' = files
             ELSE wpc'[r][w] = "hash"
       /\ (wpc[r][w] = "tierB" /\ wpc'[r][w] # "tierB") =>
             IF hitB
             THEN /\ results'[r] = Append(results[r], ok)
                  /\ db' = [db EXCEPT ![v][k] = h]
                  /\ tools' = tools /\ gens' = gens /\ files' = files
             ELSE wpc'[r][w] = "probe" /\ db' = db
       /\ (wpc'[r][w] = "probe" /\ wpc[r][w] # "probe") => wpc[r][w] = "tierB" /\ ~hitB
       /\ (wpc'[r][w] = "tierB" /\ wpc[r][w] # "tierB") => wpc[r][w] = "hash"
       /\ (wpc'[r][w] = "hash" /\ wpc[r][w] # "hash") => wpc[r][w] = "tierA" /\ ~hitA

C5_ToolsOnlyAfterBothMiss ==
    [][/\ \A r \in Runs : \A w \in Workers : C5_JobStep(r, w)
       /\ \A r \in Runs :
            (tools'[r].probe > tools[r].probe \/ \E h \in Hashes : gens'[r][h] > gens[r][h])
               => \E w \in Workers : wpc[r][w] \in {"probe", "gen", "genw"}]_vars

\* A job that hit tier (b) beside a job that went on to generate.
C5_Witness ==
    \E r \in Runs :
        /\ gpc[r] = "ret" /\ success[r] = 2
        /\ tools[r].hash = 2 /\ tools[r].probe = 1 /\ gens[r]["h1"] = 1

\* C6: every identifier of the captured list is received by one worker, once,
\* and yields one result, whatever the other jobs do.
InList(r, v) == \E i \in 1..Len(videos[r]) : videos[r][i] = v

C6_EveryJobOnce ==
    \A r \in Runs :
        /\ \A v \in Videos :
              /\ handed[r][v] <= 1
              /\ collected[r][v] <= handed[r][v]
              /\ Cardinality({w \in Workers : wjob[r][w].path = v}) <= 1
              /\ handed[r][v] = 1 => InList(r, v)
        /\ gpc[r] = "ret" =>
              /\ \A v \in Videos : collected[r][v] = (IF InList(r, v) THEN 1 ELSE 0)
              /\ success[r] + failed[r] = Len(videos[r])

\* A completed run in which one job failed and the other succeeded.
C6_Witness ==
    \E r \in Runs : gpc[r] = "ret" /\ Len(videos[r]) = 2 /\ failed[r] = 1 /\ success[r] = 1

\* C7: when a run started through the API has finished, the progress the
\* status endpoint shows has done + failed = total, total being the number of
\* videos that run enumerated, done its successes and failed its failures.
C7_FinalCountersExact ==
    \A k \in Kinds :
        gpc[ApiRun(k)] = "ret" =>
            /\ progress[k].Total = Len(videos[ApiRun(k)])
            /\ progress[k].Done = success[ApiRun(k)]
            /\ progress[k].Failed = failed[ApiRun(k)]
            /\ progress[k].Done + progress[k].Failed = progress[k].Total

\* C8: every accepted start request leads to the kind's flag being cleared.
C8_RunEnds == \A k \in Kinds : running[k] ~> ~running[k]

\* A run with more workers than videos has come to its end.
C8_Witness ==
    \E k \in Kinds :
        /\ runNo[k] >= 1 /\ ~running[k] /\ gpc[ApiRun(k)] = "idle"
        /\ progress[k].Total = 1 /\ progress[k].Done = 1

\* C9: two successive status reads during one run see done and failed
\* non-decreasing, and done + failed <= total.
C9_ReadsMonotonic ==
    [][( /\ resp.op = "status" /\ resp'.op = "status"
         /\ resp'.kind = resp.kind /\ resp'.run = resp.run
         /\ resp.progress.Running /\ resp'.progress.Running ) =>
            /\ resp'.progress.Done >= resp.progress.Done
            /\ resp'.progress.Failed >= resp.progress.Failed
            /\ resp'.progress.Done + resp'.progress.Failed <= resp'.progress.Total]_vars

\* C10: a start request is accepted whenever its own kind's flag is clear,
\* whatever the other kind does, and it changes neither the other kind's flag
\* nor the other kind's counters.
C10_KindsIndependent ==
    [][\A k \in Kinds :
          nStart'[k] = nStart[k] + 1 =>
             /\ ~running[k] =>
                   /\ resp'.op = "start" /\ resp'.kind = k /\ resp'.code = 200
                   /\ running'[k] /\ progress'[k].Running
                   /\ gpc[ApiRun(k)] = "idle" /\ gpc'[ApiRun(k)] = "start"
             /\ running'[Other(k)] = running[Other(k)]
             /\ progress'[Other(k)] = progress[Other(k)]
             /\ RunState(ApiRun(Other(k)))' = RunState(ApiRun(Other(k)))]_vars

\* A start request accepted while the other kind's run is under way.
C10_Witness ==
    \E k \in Kinds :
        /\ resp.op = "start" /\ resp.kind = k /\ resp.code = 200
        /\ gpc[ApiRun(k)] = "start"
        /\ running[Other(k)] /\ progress[Other(k)].Done = 1
        /\ gpc[ApiRun(Other(k))] = "collect"

\* The canonical absolute path an identifier names lies inside root i: it is
\* the root or goes on below it.
Inside(absPath, root) ==
    absPath = root \/ HasPrefix(absPath, root \o <<"/">>)

OutsideEveryRoot(absPath) == \A i \in 1..Len(VideoDirs) : ~Inside(absPath, Abs(VideoDirs[i]))

\* C11: a stream, thumbnail or preview request whose identifier names a path
\* outside every configured root is answered 403, and the file is neither
\* opened nor served.
C11_OutsideRootsDenied ==
    (hresp.code # 0 /\ parseVideoPath(hreq.id).ok
        /\ OutsideEveryRoot(Abs(parseVideoPath(hreq.id).path))) =>
       /\ hresp.code = 403
       /\ hresp.opened = <<>> /\ hresp.served = <<>> /\ hresp.body = <<>>

Quiescent == \A c \in Clients : cpc[c] = "idle"

\* The view requests for v whose upsert has run and whose answer is not out.
ViewsInHand(v) == Cardinality({c \in Clients : cloc[c].op = "view" /\ cloc[c].path = v})

\* C12: the views of an identifier count every view request made for it,
\* whatever the interleaving: when N requests have been answered and none is
\* under way, views = N.
C12_NoViewLost ==
    \A v \in Videos : stats[v].views = vdone[v] + ViewsInHand(v)

\* Two view requests for one identifier under way at once, after a first one.
C12_Witness ==
    \E v \in Videos :
        /\ vdone[v] = 1 /\ ViewsInHand(v) = 2 /\ stats[v].views = 3
        /\ \A c \in Clients : cpc[c] = "hotUpdate"

\* C13: with one like request at a time, ToggleLike stores the negation of
\* the liked value stored before and returns what it stored; after an even
\* number of like requests for an identifier liked and likes are what they
\* were before them (after an odd number, liked is flipped and likes is one
\* more or one less).
C13_ToggleSequential ==
    [][/\ \A c \in Clients :
            (cpc[c] = "likeUpsert" /\ cpc'[c] # "likeUpsert") =>
                /\ stats'[cloc[c].path].liked = ~stats[cloc[c].path].liked
                /\ stats'[cloc[c].path].liked = cloc[c].newLiked
       /\ \A c \in Clients :
            (cpc[c] = "getStats" /\ cpc'[c] = "idle" /\ cloc[c].op = "like") =>
                /\ seen'.liked = seen'.row.liked
                /\ seen'.row.likes = (IF seen'.liked THEN 1 ELSE 0)
       /\ Quiescent' =>
            \A v \in Videos :
                IF ldone'[v] % 2 = 0
                THEN ~stats'[v].liked /\ stats'[v].likes = 0
                ELSE stats'[v].liked /\ stats'[v].likes = 1]_vars

\* A video liked and unliked again, the second request just answered.
C13_Witness ==
    /\ Quiescent /\ callers = {"c1"}
    /\ seen.op = "like" /\ ~seen.liked
    /\ ldone[seen.path] = 2 /\ stats[seen.path].likes = 0 /\ ~stats[seen.path].liked

\* C14: with like requests for one identifier overlapping, likes goes up once
\* per change of liked from false to true and down once per change back:
\* starting from no row, whenever no request is under way likes = 1 if liked
\* and likes = 0 if not.
C14_LikesFollowLiked ==
    Quiescent => \A v \in Videos : stats[v].likes = (IF stats[v].liked THEN 1 ELSE 0)

\* C15: no reader gets a row whose views include a view request's increment
\* while its hotness is still the one computed before that increment.
C15_ViewsAndHotnessTogether ==
    seen.op # "none" => seen.from.views = seen.row.views

\* C16: likes >= 0 and views >= 0 in every state of the stats table.
C16_CountsNotNegative ==
    \A v \in Videos : stats[v].likes >= 0 /\ stats[v].views >= 0

\* C17: a view or like request that runs with no other request beside it
\* leaves hotness = views * 1 + likes * 5 + max(0, 7 - d) * 10 in a row that
\* has a last view, d being the days since that view when hotness is written;
\* views = 10 and likes = 2 give 90 at d = 0 and 20 at d = 10.
C17_HotnessFormula ==
    [][/\ \A c \in Clients :
            (cpc[c] = "hotUpdate" /\ cpc'[c] = "getStats") =>
                LET row == stats'[cloc[c].path]
                    d == now - row.lastViewed.time
                IN row.lastViewed.valid =>
                      row.hotness = row.views + row.likes * 5
                                      + (IF 7 - d > 0 THEN (7 - d) * 10 ELSE 0)
       /\ Hotness(10, 2, 0) = 90
       /\ Hotness(10, 2, 10) = 20]_vars

\* A like written more than a week after the only view: no recency bonus.
C17_Witness ==
    \E v \in Videos :
        /\ callers = {"c1"} /\ cpc["c1"] = "getStats"
        /\ cloc["c1"].op = "like" /\ cloc["c1"].path = v
        /\ stats[v].lastViewed.valid /\ now - stats[v].lastViewed.time >= 7
        /\ stats[v].views = 1 /\ stats[v].likes = 1 /\ stats[v].hotness = 6

\* The file a stream request names, when it is a file of the library.
Streamed == hresp.code # 0 /\ hreq.endpoint = "stream" /\ hreq.id \in Videos

FileBytes == <<lib[hreq.id].head, lib[hreq.id].tail>>

\* bytes=<start>-<end>, or bytes=<start>-
SingleRange ==
    /\ hreq.range.present /\ Len(hreq.range.parts) = 2
    /\ hreq.range.parts[1].form = "num"
    /\ hreq.range.parts[2].form \in {"num", "empty"}

RangeStart == hreq.range.parts[1].val
RangeLast == IF hreq.range.parts[2].form = "num" THEN hreq.range.parts[2].val
             ELSE Len(FileBytes) - 1

\* C18: a stream request without Range header for a file of size S is
\* answered 200 with Content-Length S and Accept-Ranges: bytes, and the S
\* bytes of the file.
C18_FullFile ==
    (Streamed /\ ~hreq.range.present) =>
        /\ hresp.code = 200
        /\ hresp.hasLength /\ hresp.length = Len(FileBytes)
        /\ hresp.acceptRanges
        /\ hresp.body = FileBytes

\* The second file of the library served whole.
C18_Witness ==
    /\ Streamed /\ ~hreq.range.present /\ hreq.id = VideoOrder[2]
    /\ hresp.code = 200 /\ hresp.length = 2 /\ hresp.body = <<"h1", "t2">>

\* C19: bytes=<start>-<end> with 0 <= start <= end < S (no end: S - 1) is
\* answered 206 with Content-Length end - start + 1, Content-Range: bytes
\* start-end/S, and the bytes start..end of the file.
C19_PartialContent ==
    (Streamed /\ SingleRange /\ 0 <= RangeStart /\ RangeStart <= RangeLast
        /\ RangeLast < Len(FileBytes)) =>
        /\ hresp.code = 206
        /\ hresp.hasLength /\ hresp.length = RangeLast - RangeStart + 1
        /\ hresp.contentRange = [form |-> "range", start |-> RangeStart,
                                 end |-> RangeLast, size |-> Len(FileBytes)]
        /\ hresp.body = [i \in 1..(RangeLast - RangeStart + 1) |-> FileBytes[RangeStart + i]]

\* bytes=1- : the last block of the file.
C19_Witness ==
    /\ Streamed /\ SingleRange /\ RangeStart = 1 /\ hreq.range.parts[2].form = "empty"
    /\ hresp.code = 206 /\ hresp.length = 1 /\ hresp.body = <<"t1">>

\* C20: a single-range request that violates 0 <= start <= end < S is
\* answered 416 with Content-Range: bytes */S and no body.
C20_NotSatisfiable ==
    (Streamed /\ SingleRange
        /\ ~(0 <= RangeStart /\ RangeStart <= RangeLast /\ RangeLast < Len(FileBytes))) =>
        /\ hresp.code = 416
        /\ hresp.contentRange = [form |-> "unsatisfied", start |-> 0, end |-> 0,
                                 size |-> Len(FileBytes)]
        /\ hresp.body = <<>>

\* C21: a Range header that is not exactly two dash-separated fields after
\* bytes= is answered 400, and no file data is sent.
C21_MalformedRejected ==
    (Streamed /\ hreq.range.present /\ Len(hreq.range.parts) # 2) =>
        /\ hresp.code = 400
        /\ \A i \in 1..Len(hresp.body) : \A k \in 1..Len(FileBytes) :
              hresp.body[i] # FileBytes[k]

\* The request being served, as the handler resolves it.
DemandPath == Abs(parseVideoPath(hreq.id).path)
DemandFile == FileAt(lib, DemandPath)
DemandHash == IF DemandFile.exists /\ ~DemandFile.dir THEN DemandFile.bytes[1] ELSE NoHash
\* A request the handler does not turn away: the identifier resolves into a
\* root and something is there.
DemandServed(k) ==
    /\ hreq.endpoint = k /\ hresp = NoHResp /\ hresp' # NoHResp
    /\ hreq.id # <<>> /\ parseVideoPath(hreq.id).ok /\ Allowed(DemandPath)
    /\ DemandFile.exists

\* C22: a thumbnail or preview request runs the three-tier check inside the
\* request: a recorded hash whose file exists is served as it is; a file
\* under the fresh fingerprint is recorded and served; otherwise the artifact
\* is generated before the answer, which is the artifact (now complete and
\* recorded) or, when fingerprinting or a tool fails, 500 with nothing
\* recorded.
C22_OnDemandGeneration ==
    [][\A k \in Kinds : DemandServed(k) =>
          IF TierAHit(k, hreq.id)
          THEN /\ hresp'.code = 200
               /\ hresp'.served = ArtifactPath(k, GetHash(db, hreq.id, k))
               /\ UNCHANGED storeVars
          ELSE IF DemandFile.dir
          THEN hresp'.code = 500 /\ UNCHANGED storeVars
          ELSE IF StatOk(k, DemandHash)
          THEN /\ hresp'.code = 200
               /\ hresp'.served = ArtifactPath(k, DemandHash)
               /\ GetHash(db', hreq.id, k) = DemandHash
               /\ files' = files
          ELSE \/ /\ hresp'.code = 200
                  /\ hresp'.served = ArtifactPath(k, DemandHash)
                  /\ files'[k][DemandHash] = "done"
                  /\ GetHash(db', hreq.id, k) = DemandHash
               \/ /\ hresp'.code = 500
                  /\ files'[k][DemandHash] # "done"
                  /\ db' = db]_vars

\* The first thumbnail of the cache, generated inside the request for b.mp4
\* and served; and a request whose generation failed.
C22_Witness ==
    /\ hreq.endpoint = "thumbnail" /\ hreq.id = VideoOrder[2]
    /\ hresp.code = 200 /\ hresp.opened # <<>>
    /\ hresp.served = ArtifactPath("thumbnail", "h1")
    /\ files["thumbnail"]["h1"] = "done"
    /\ \A v \in DOMAIN db : (db[v]["thumbnail"] # NoHash) <=> (v = hreq.id)

\* The duration ffprobe reports for the video of a job.
Probed(r, w) == ParseFloat(lib[wjob[r][w].path])

\* C23: a thumbnail job never fails at the probe: with a usable duration D the
\* frame is taken at D / 2, and when the probe fails or gives no usable
\* duration the frame is taken at 300 s (half of the assumed 600 s).
C23_DurationNeverFails ==
    [][\A r \in Runs, w \in Workers :
          (KindOf(r) = "thumbnail" /\ wpc[r][w] = "probe" /\ wpc'[r][w] # "probe"
              /\ lib[wjob[r][w].path] # Absent) =>
              /\ wpc'[r][w] = "gen"
              /\ \/ wjob'[r][w].ss = 300
                 \/ Probed(r, w) >= 1 /\ wjob'[r][w].ss = Probed(r, w) \div 2]_vars

\* C24: when the segment runs or the concatenation of a preview job fail, one
\* fallback invocation follows, for a clip that starts at D / 2 of the
\* video's duration D, or at 0 when D / 2 is less than 15 s; the job then
\* succeeds and records the hash exactly when the fallback succeeds, and no
\* further invocation follows.
C24_PreviewFallback ==
    [][\A r \in Runs, w \in Workers :
          (KindOf(r) = "preview" /\ wpc[r][w] \in {"gen", "genw"} /\ lib[wjob[r][w].path] # Absent) =>
              /\ (~wjob[r][w].fallback /\ wjob'[r][w].fallback) =>
                    /\ wpc'[r][w] = "gen"
                    /\ gens'[r][wjob[r][w].hash] = gens[r][wjob[r][w].hash] + 1
                    /\ Probed(r, w) >= 1 =>
                          wjob'[r][w].ss = IF Probed(r, w) \div 2 < 15 THEN 0
                                           ELSE Probed(r, w) \div 2
              /\ (~wjob[r][w].fallback /\ wpc'[r][w] = "recv") =>
                    ~results'[r][Len(results'[r])].err
              /\ (wjob[r][w].fallback /\ wpc'[r][w] # wpc[r][w]) =>
                    /\ gens' = gens
                    /\ wpc'[r][w] = "recv" =>
                          (~results'[r][Len(results'[r])].err
                              <=> /\ files'["preview"][wjob[r][w].hash] = "done"
                                  /\ db'[wjob[r][w].path]["preview"] = wjob[r][w].hash
                                  /\ db[wjob[r][w].path]["preview"] # wjob[r][w].hash)]_vars

\* The row of an identifier exists once a view, a like or a hash has been
\* written for it (no statement deletes a row or stores an empty hash).
RowExists(v) == stats[v].exists \/ \E k \in Kinds : GetHash(db, v, k) # NoHash

\* This step is a thumbnail or preview request that calls SetThumbnailHash /
\* SetPreviewHash: it is answered 200 after the fingerprint was computed.
SetsHash(k) ==
    /\ hreq.endpoint = k /\ hresp = NoHResp
    /\ hresp'.code = 200 /\ hresp'.opened # <<>>

Writers(k, h) ==
    {rw \in Runs \X Workers :
        KindOf(rw[1]) = k /\ wpc[rw[1]][rw[2]] = "genw" /\ wjob[rw[1]][rw[2]].hash = h}

Walked(r) == {videos[r][i] : i \in 1..Len(videos[r])}

\* The walk of run r has finished and its list is still in hand.
HasWalked(r) == gpc[r] = "collect"

Present == {e \in {DiskOrder[i] : i \in 1..Len(DiskOrder)} : SizeOf(lib, tree, e) # Missing}

\* Entry e is in the list of a finished walk or in the lister's response.
Enumerated(e) ==
    \/ \E r \in Runs : HasWalked(r) /\ Address(e.root, e.name) \in Walked(r)
    \/ listed # NoList /\ Address(e.root, e.name) \in listed.videos

\* Every walk that has been asked for has answered.
AllWalked == listed # NoList /\ \A k \in Kinds : HasWalked(ApiRun(k))

\* The name of entry e passes: it ends in .mp4 whatever the case, and it
\* does not start with "._".
VideoName(e) == HasSuffix(ToLower(e.name), <<".mp4">>) /\ ~HasPrefix(e.name, <<"._">>)

\* C29 as stated: an enumerated file has a name ending in .mp4 (any case)
\* that does not start with "._" and a size above 10 MiB, so a file of
\* 10 MiB or less is never enumerated.
C29_AboveFloorOnly ==
    \A e \in Present :
        Enumerated(e) => ~e.isDir /\ VideoName(e) /\ SizeOf(lib, tree, e) > MinSize

\* C29 as the walks have it: an enumerated file has a name ending in .mp4
\* (any case) that does not start with "._" and a size of at least 10 MiB;
\* a file smaller than 10 MiB is never enumerated.
C29_AtLeastFloor ==
    \A e \in Present :
        /\ Enumerated(e) => ~e.isDir /\ VideoName(e) /\ SizeOf(lib, tree, e) >= MinSize
        /\ SizeOf(lib, tree, e) < MinSize => ~Enumerated(e)

\* The three walks have met a video of exactly 10 MiB and listed it, a video
\* one byte smaller and a companion file of video size and skipped them.
C29_Witness ==
    /\ AllWalked
    /\ tree[UpperCase] = MinSize /\ Enumerated(UpperCase)
    /\ tree[ColonNamed] = MinSize - 1 /\ ~Enumerated(ColonNamed)
    /\ tree[AppleDouble] = MinSize + 1 /\ ~Enumerated(AppleDouble)

\* The part of an identifier before its first colon, and the part after it.
IndexPart(id) == SubSeq(id, 1, FirstColon(id) - 1)
RelPart(id) == SubSeq(id, FirstColon(id) + 1, Len(id))

\* The index part is the numeral of i.
IsIndex(id, i) == Atoi(IndexPart(id)) = [ok |-> TRUE, val |-> i]

\* C30: an identifier built from root i and a relative path resolves to the
\* join of root i and that path (also when the path holds a colon), and an
\* identifier with an index part resolves to an error and no path exactly
\* when that part is no integer or no index of a root.  Seen at the stream
\* endpoint: 400 and nothing opened for the error, the joined path opened
\* otherwise, and every identifier the lister gave out opens its file.
C30_ResolveInvertsAddress ==
    (hresp.code # 0 /\ hreq.endpoint = "stream" /\ HasColon(hreq.id)) =>
        /\ IF \E i \in 0..(Len(VideoDirs) - 1) : IsIndex(hreq.id, i)
           THEN /\ hresp.code # 400
                /\ hresp.code = 200 =>
                      \E i \in 0..(Len(VideoDirs) - 1) :
                          /\ IsIndex(hreq.id, i)
                          /\ hresp.opened = Join(VideoDirs[i + 1], RelPart(hreq.id))
           ELSE hresp.code = 400 /\ hresp.opened = <<>> /\ hresp.body = <<>>
        /\ \A e \in Present :
              (hreq.id = Address(e.root, e.name) /\ ~e.isDir) =>
                  hresp.code = 200 /\ hresp.opened = EntryPath(e)

\* The lister gave out the identifier of the file with a colon in its name,
\* and the stream endpoint opened that file for it.
C30_Witness ==
    /\ hresp.code = 200 /\ hreq.id = Address(ColonNamed.root, ColonNamed.name)
    /\ hreq.id \in listed.videos
    /\ hresp.opened = <<"/", "w", "/", "a", ":", "b", ".mp4">>

\* An identifier without an index in front: no colon at all, or a first
\* colon that belongs to a name (what stands before it is no numeral).
Bare(id) == ~HasColon(id) \/ (IndexPart(id) # <<>> /\ ~Atoi(IndexPart(id)).ok)

\* C31: a bare relative path, also one with a colon in a name, is accepted
\* and is answered as the identifier "0:" followed by that path is: no 400,
\* and the file opened is the one under the first root.
C31_BareResolvesInRootZero ==
    (hresp.code # 0 /\ hreq.endpoint = "stream" /\ Bare(hreq.id)) =>
        /\ hresp.code # 400
        /\ hresp = StreamResponse(lib, Address("0", hreq.id), hreq.range)

\* The workers of run r that have a job in hand (between the receive and the
\* result: the cache check, the fingerprint, the probe, the generation).
Busy(r) == {w \in Workers : wjob[r][w] # NoJob}

\* The worker goroutines run r has started.
Started(r) == {w \in Workers : wpc[r][w] # "off"}

\* C32: a batch run with W workers has at most W jobs in the cache check or
\* the external tools at any moment, where W is the number asked for when
\* that is at least 1 and 4 when it is below 1.
C32_AtMostWJobs ==
    \A r \in Runs :
        LET W == IF configured >= 1 THEN configured ELSE 4
        IN /\ Cardinality(Busy(r)) <= W
           /\ Executing(r) => Cardinality(Started(r)) = W

\* One worker was asked for: it has a job in hand while the next job waits
\* in the channel.
C32_Witness ==
    \E r \in Runs :
        /\ configured = 1 /\ Cardinality(Busy(r)) = 1
        /\ jobs[r] # <<>> /\ spc[r] = "end"

\* Worker w of run r ends its job in this step, with or without an error.
JobEnds(r, w, err) ==
    /\ wjob[r][w] # NoJob /\ wjob'[r][w] = NoJob
    /\ results'[r] = Append(results[r], [path |-> wjob[r][w].path, err |-> err])

\* C33: a batch job whose probe or whose every generation attempt fails
\* records no hash and is counted as failed, and a later run generates for
\* that video again: with one video in an unchanged library, a job of a
\* second run that finds no hash recorded and succeeds has run the
\* generation tool.
C33_FailedJobRetried ==
    [][\A r \in Runs, w \in Workers :
          /\ (JobEnds(r, w, TRUE) /\ wpc[r][w] \in {"probe", "gen", "genw"}) =>
                db' = db
          /\ ( /\ JobEnds(r, w, FALSE)
               /\ lib = OneVideo /\ libChanges = 0 /\ runNo[KindOf(r)] = 2
               /\ GetHash(db, wjob[r][w].path, KindOf(r)) = NoHash ) =>
                wpc[r][w] = "genw"]_vars

\* The jobs in hand whose fingerprint is computed and whose file is in place.
Hashed == {rw \in Runs \X Workers :
              /\ wjob[rw[1]][rw[2]].hash # NoHash
              /\ lib[wjob[rw[1]][rw[2]].path] # Absent}

\* The file at identifier v came there by a rename: it is the other video's.
Renamed(v) == lib[v] # Absent /\ lib[v] # Original(v)

\* C34: the fingerprint is decided by the first MiB of the file alone (two
\* files that agree on it have one fingerprint, whatever their paths and
\* their other bytes), and a job that finds an artifact file under the
\* fingerprint of its video, as the job for the new identifier of a renamed
\* file does, records that fingerprint and ends without probe or generation.
C34_RenameReusesArtifact ==
    [][/\ \A a, b \in Hashed' :
             lib'[wjob'[a[1]][a[2]].path].head = lib'[wjob'[b[1]][b[2]].path].head
                => wjob'[a[1]][a[2]].hash = wjob'[b[1]][b[2]].hash
       /\ \A r \in Runs, w \in Workers :
             ( /\ wpc[r][w] = "tierB" /\ wpc'[r][w] # "tierB"
               /\ lib[wjob[r][w].path] # Absent
               /\ files[KindOf(r)][lib[wjob[r][w].path].head] # "none" ) =>
                 /\ JobEnds(r, w, FALSE)
                 /\ GetHash(db', wjob[r][w].path, KindOf(r)) = lib[wjob[r][w].path].head
                 /\ tools'[r].probe = tools[r].probe /\ gens' = gens]_vars

\* The job for the new identifier of a renamed file has ended at the content
\* check: the artifact made under the old identifier is recorded for the new
\* one, and the run has called neither the probe nor the generation tool.
C34_Witness ==
    \E r \in Runs, v \in Videos :
        /\ Renamed(v) /\ gpc[r] = "ret" /\ success[r] = 1 /\ failed[r] = 0
        /\ GetHash(db, v, KindOf(r)) = lib[v].head
        /\ files[KindOf(r)][lib[v].head] = "done"
        /\ tools[r].probe = 0 /\ tools[r].hash = 1
        /\ \A h \in Hashes : gens[r][h] = 0

\* The on-demand request for kind k is answered with the artifact in this step.
DemandSucceeds(k) == hreq.endpoint = k /\ hresp = NoHResp /\ hresp'.code = 200

\* C35 as stated: when a batch job or an on-demand request succeeds for an
\* identifier whose file is there, the hash recorded for the identifier and
\* the kind is the fingerprint the file has now.
C35_RecordedIsCurrent ==
    [][/\ \A r \in Runs, w \in Workers :
             (JobEnds(r, w, FALSE) /\ lib[wjob[r][w].path] # Absent) =>
                GetHash(db', wjob[r][w].path, KindOf(r))
                    = GetFileContentHash(lib[wjob[r][w].path])
       /\ \A k \in Kinds :
             DemandSucceeds(k) =>
                GetHash(db', hreq.id, k) = GetFileContentHash(lib[hreq.id])]_vars

\* C35 as the cache check has it: a job or request that finds a recorded
\* hash whose artifact file exists succeeds at once and leaves that hash as
\* it is, whatever the file holds now; every other job or request that
\* succeeds has recorded the fingerprint it computed, which is the file's
\* fingerprint now unless the file was replaced while the job ran.
C35_RecordedOrKept ==
    [][/\ \A r \in Runs, w \in Workers :
             JobEnds(r, w, FALSE) =>
                IF wpc[r][w] = "tierA"
                THEN db' = db /\ TierAHit(KindOf(r), wjob[r][w].path)
                ELSE /\ GetHash(db', wjob[r][w].path, KindOf(r)) = wjob[r][w].hash
                     /\ (fresh[r] /\ lib[wjob[r][w].path] # Absent) =>
                           wjob[r][w].hash = GetFileContentHash(lib[wjob[r][w].path])
       /\ \A k \in Kinds :
             DemandSucceeds(k) =>
                IF TierAHit(k, hreq.id)
                THEN db' = db
                ELSE GetHash(db', hreq.id, k) = GetFileContentHash(lib[hreq.id])]_vars

\* The file was replaced while its old artifact exists: the old hash is still
\* recorded after a request for it succeeded, and a run that found no usable
\* hash has recorded the fingerprint of the new file.
C35_Witness ==
    /\ lib[VideoOrder[1]] = Replacement
    /\ \E k \in Kinds :
          /\ hreq.endpoint = k /\ hresp.code = 200
          /\ GetHash(db, VideoOrder[1], k) = "h1" /\ files[k]["h1"] = "done"
          /\ GetHash(db, VideoOrder[1], Other(k)) = "s1" /\ files[Other(k)]["s1"] = "done"

\* C36: a hash is recorded for an identifier and a kind only when the
\* artifact under that hash is complete: never, through the file-exists
\* check, for a file that a job is still writing or that a failed generation
\* left behind.
C36_RecordedMeansComplete ==
    [][\A v \in Videos, k \in Kinds :
          GetHash(db', v, k) # GetHash(db, v, k) =>
              files'[k][GetHash(db', v, k)] = "done"]_vars

\* The three counters of a progress struct.
Counters(p) == <<p.Total, p.Done, p.Failed>>

\* What the run in progress has counted so far: nothing before its first
\* result, then the size of its list and its two counters.
CountedSoFar(r) ==
    IF success[r] + failed[r] = 0 THEN <<0, 0, 0>>
    ELSE <<Len(videos[r]), success[r], failed[r]>>

\* C37: a status read that shows running = true carries the counters of the
\* run in progress (zero before its first result, also when its list is
\* empty), never those the previous run of the kind left.
C37_StatusOfNewRun ==
    [][\A k \in Kinds :
          ( /\ resp' # resp /\ resp'.op = "status" /\ resp'.kind = k
            /\ resp'.progress.Running ) =>
              Counters(resp'.progress) = CountedSoFar(ApiRun(k))]_vars

\* C38: when every view and like request for an identifier has been
\* answered, the stored hotness is the formula applied to the stored views
\* and likes (and the stored last view): no hotness computed from an older
\* reading of the row has replaced one computed from a newer reading.
C38_HotnessFromLatest ==
    Quiescent =>
        \A v \in Videos :
            stats[v] # NoRow =>
                stats[v].hotness = Hotness(stats[v].views, stats[v].likes,
                                           DaysSinceViewed(stats[v].lastViewed, now))

\* C40: a like on an identifier that was never viewed (last_viewed is NULL)
\* gets the whole recency bonus of 70: with the request answered the row
\* holds the hotness 5 * likes + 70, which is 75 after the first like.
C40_NeverViewedFullBonus ==
    Quiescent =>
        \A v \in Videos :
            (stats[v].exists /\ ~stats[v].lastViewed.valid) =>
                /\ stats[v].views = 0
                /\ stats[v].hotness = 5 * stats[v].likes + 70
                /\ ldone[v] = 1 => stats[v].hotness = 75

\* A video liked once and never viewed, days after the process started.
C40_Witness ==
    \E v \in Videos :
        /\ Quiescent /\ ldone[v] = 1 /\ vdone[v] = 0 /\ now >= 1
        /\ stats[v].liked /\ stats[v].likes = 1 /\ ~stats[v].lastViewed.valid
        /\ stats[v].hotness = 75

\* C39: a preview job whose concat invocation is running (its segments are
\* cut, the concatenation has not ended) finds its segment directory in place
\* and holding the segment files it wrote itself: no other job has written,
\* overwritten or removed them.
C39_SegmentsStayOwn ==
    \A r \in scope : \A w \in Workers :
        (wpc[r][w] = "genw" /\ Segmenting(r, w)) =>
            /\ temp[wjob[r][w].hash].dir
            /\ temp[wjob[r][w].hash].seg = <<r, w>>

====
